---- MODULE Spec2Model ----
(***************************************************************************)
(* Queue runtime of the inference worker: the JetStream work-queue stream  *)
(* and its durable pull consumer, the pool of worker goroutines running    *)
(* the fetch/dispatch loop, the three message handlers and the services    *)
(* they call, and the pending/active counters of the monitoring service.   *)
(***************************************************************************)
EXTENDS Integers, Sequences, FiniteSets, TLC

(* ---------------------------------------------------------------- bounds *)

\* number of requests clients publish to the stream
MaxMsgs == 2

\* the stream stops handing out a message after this many deliveries
\* (caps the otherwise unbounded redelivery counter)
MaxDeliveries == 2

\* processes that start against the same stream, each with its own subject
NumStarters == 3

\* largest worker pool (WORKER_CONCURRENCY) the backpressure monitor is
\* checked against
PoolSize == 10

\* largest configured backpressure threshold
MaxThreshold == 6

\* longest subject, in pieces, that the routing is checked on
MaxPieces == 6

\* model names the fleet monitor is followed for
NumModels == 2

\* clients connected to /api/events
NumClients == 1

\* the monitor's clock stops after this many minutes
MaxTime == 4

\* largest |max_tokens| a request carries, in tokens
MaxBudget == 3

\* longest assistant response parsed, in markers and characters
MaxResponse == 4

\* worker tasks (WORKER_CONCURRENCY) handling embedding messages
NumTasks == 3

\* responses published to the reply subject of one request (a request
\* that is redelivered is answered again)
MaxReplies == 2

\* HTTP callers that post a grammar under the same (directory, name)
NumCallers == 2

(* -------------------------------------------------------- configuration *)

\* cfg.Concurrency: WORKER_CONCURRENCY, default 2
Concurrency == 2

\* cfg.MaxDeliver: MAX_DELIVER as set in the worker's environment (Load
\* reads it with getEnvInt, default 5); 1 asks for no redelivery at all
MaxDeliver == 1

\* consumer.Fetch(1, ...): every fetch requests one message
FetchBatch == 1

\* The consumer configuration that createConsumer sends to the server:
\* PullSubscribe(subject, durable, nats.ManualAck()) sets no MaxDeliver
\* option, so the consumer is created with the server default, -1
\* (deliver without limit).
ConsumerMaxDeliver == 0 - 1

\* cfg.BackpressureThreshold, default 5
BackpressureThreshold == 5

Workers == 1..Concurrency
Starters == 1..NumStarters
MsgIds == 1..MaxMsgs
NoMsg == 0
NoReply == ""
NoReport == [pending |-> 0 - 1, active |-> 0 - 1, status |-> "none", sent |-> FALSE]

\* getEnvInt("QUEUE_MAX_MSGS", 2000)
DefaultMaxMsgs == 2000

\* who sends health requests: the fleet monitor (QueryHealth) and the
\* client library (CheckHealth)
Requesters == {"monitor", "client"}

\* no HealthStatus built yet
NoSnapshot == [pending |-> 0 - 1, capacity |-> 0, level |-> "none",
               utilization |-> <<0, 1>>, threshold |-> 0]

NoBeat == [outcome |-> "none", prev |-> "none"]

\* the model names the monitor hears of, and the /api/events clients
Models == 1..NumModels
Clients == 1..NumClients

\* no entry in m.services
NoRecord == [firstSeen |-> 0 - 1, lastSeen |-> 0 - 1, status |-> "none"]

NoOp == [op |-> "none", changed |-> FALSE, notified |-> {}, skipped |-> {}]

\* params["max_tokens"] as json.Unmarshal leaves it in the map: absent, a
\* float64 (kept here in halves, so 3 is 1.5), or a value of another type
NoMaxTokens == [kind |-> "absent", halves |-> 0]

\* params["grammar"] as getStringParam reads it: the empty string, or a
\* reference that holds "::=" or not, has a number of "/"-separated parts,
\* and names a grammar the repository holds or not
NoGrammar == [empty |-> TRUE, inline |-> FALSE, parts |-> 1, stored |-> FALSE]

NoParams == [grammar |-> NoGrammar, maxTokens |-> NoMaxTokens]

\* nothing resolved, nothing generated
NoGen == [resolved |-> "none", invoked |-> FALSE, called |-> FALSE,
          budget |-> 0, grammar |-> ""]

\* the callers of POST /grammars/<dir>/<name>; each posts its own body
Callers == 1..NumCallers

\* no request on an inference endpoint, and no answer written yet
NoHttp == [endpoint |-> "none", method |-> "none", body |-> "none"]
NoAnswer == [status |-> 0, handled |-> FALSE, error |-> FALSE]

\* no grammar file at the path, and a caller without a create in progress
NoFile == 0
NoCall == [pc |-> "idle", body |-> NoFile, status |-> 0]

\* ParseAssistantResponse has not run; DetermineReasoningLevel has not run
NoParse == [done |-> FALSE, hasFinal |-> FALSE, final |-> <<>>,
            hasAnalysis |-> FALSE, analysis |-> <<>>,
            FinalResponse |-> <<>>, returned |-> <<>>]
NoLevel == "none"

\* the worker tasks of one process that handle embedding messages; a nil
\* service pointer
Tasks == 1..NumTasks
NilInstance == 0

\* no heartbeat inside the monitor's subscription callback
NoArrival == [pc |-> "none", model |-> 0, at |-> 0, wasOffline |-> FALSE]

\* the client has not called sendRequest
NoRequest == [pc |-> "idle", sent |-> FALSE, result |-> "none", replyNo |-> 0]

\* NewNATSClient: timeout: 30 * time.Second
ClientTimeout == 30

\* sendRequest: make(chan *nats.Msg, 1)
ReplyChanCap == 1

\* time.NewTicker(1 * time.Second) and time.NewTicker(10 * time.Second)
HighLoadPeriod == 1
LowLoadPeriod == 10

\* A subject is a string, modelled as the sequence of its pieces: the words
\* the routing looks for, the separator ".", and "M" or "x" for any other
\* text.  The string is the concatenation of the pieces.
Subjects ==
  { <<"inference", ".", "request", ".", "M">>,
    <<"embedding", ".", "request", ".", "M">>,
    <<"audio", ".", "request", ".", "M">> }

Pieces == {"embedding", "audio", "transcribe", "request", ".", "x"}

\* a NATS subject has no empty token: no "." at either end, no ".."
ValidSubject(s) ==
  /\ s[1] # "."
  /\ s[Len(s)] # "."
  /\ \A i \in 1..(Len(s) - 1) : ~(s[i] = "." /\ s[i + 1] = ".")

\* every subject of at most MaxPieces pieces
AllSubjects ==
  { s \in UNION { [1..n -> Pieces] : n \in 1..MaxPieces } : ValidSubject(s) }

\* strings.Contains(subject, "a.b"): the pieces a, ".", b occur in a row
Contains(subject, a, b) ==
  \E i \in 1..(Len(subject) - 2) :
    subject[i] = a /\ subject[i + 1] = "." /\ subject[i + 2] = b

\* mutant: the audio markers are tested before the embedding marker
RouteAudioFirst(subject) ==
  IF Contains(subject, "audio", "request")
     \/ Contains(subject, "transcribe", "request") THEN "audio"
  ELSE IF Contains(subject, "embedding", "request") THEN "embedding"
  ELSE "inference"

\* processMessage: the handler is chosen from the subject
Route(subject) ==
  IF Contains(subject, "embedding", "request") THEN "embedding"
  ELSE IF Contains(subject, "audio", "request")
          \/ Contains(subject, "transcribe", "request") THEN "audio"
  ELSE "inference"

\* The payloads a client can publish, seen through json.Unmarshal into the
\* handler's request type: whether they parse, and the reply_to they carry.
Payloads ==
  { [parses |-> p, replyTo |-> r] : p \in BOOLEAN, r \in {NoReply, "x.reply"} }

ValidPayloads == { p \in Payloads : ~p.parses => p.replyTo = NoReply }

\* msg.Reply, the message's own transport reply header: for a message
\* delivered by JetStream it holds the acknowledgement subject
MsgReply(m) == "$JS.ACK"

\* the subject a response is published to: reply_to of the parsed payload
\* (req.ReplyTo), not msg.Reply
ReplySubject(req, m) == req.replyTo

VARIABLES
  mode,        \* which service main wired into the NATS service
  subject,     \* cfg.Subject: the consumer's subject, carried by every message
  stream,      \* per request: "unpublished", "stored" or "removed"
  payload,     \* per request: the payload published
  ackPending,  \* per request: delivered and awaiting acknowledgement
  deliveries,  \* per request: number of deliveries by the consumer
  pc,          \* per worker: position in worker()/processMessage()
  inv,         \* per worker: the handler invocation in progress
  pendingCount,
  activeCount,
  invocations, \* per request: handler invocations entered so far
  naks,        \* per request: negative acknowledgements issued so far
  published,   \* per request: responses that reached its reply subject
  crashed,     \* an unrecovered panic ended the process
  ctx,         \* the shared context of main: "live" or "cancelled"
  conn,        \* the NATS connection: "open" or "closed"
  exited,      \* main returned: the process is gone
  lastErr,     \* per worker: the fetch error it is backing off from
  streamExists,   \* the JetStream stream cfg.Stream exists
  streamSubjects, \* the subjects of the stream's configuration
  startPc,        \* per starting process: position in ensureStream
  snapshot,       \* per starting process: the subjects StreamInfo returned
  threshold,      \* cfg.BackpressureThreshold
  currentTicker,  \* monitorBackpressure: the ticker selected on
  highC,          \* a tick is buffered in highLoadTicker.C
  lowC,           \* a tick is buffered in lowLoadTicker.C
  report,         \* the last BackpressureReport handed to Publish
  maxMsgs,        \* cfg.MaxMsgs: QUEUE_MAX_MSGS, the capacity of the health snapshot
  healthPc,       \* HealthService: position in Start/publishHeartbeats
  hbC,            \* a tick is buffered in the heartbeat ticker's channel
  lastBeat,       \* how the last two heartbeat ticks ended
  lastSnapshot,   \* the HealthStatus built last, by a tick or a request
  hreq,           \* per requester: its health request on models.<name>.health
  services,       \* monitor: m.services, the record of each model name
  now,            \* monitor: the wall clock, in minutes
  cleanupC,       \* monitor: a tick is buffered in the cleanup ticker's channel
  listeners,      \* monitor: the /api/events clients with a channel in m.listeners
  chanLen,        \* monitor: per client, the updates buffered in its channel
  fleetOp,        \* monitor: the last operation on the fleet state
  params,         \* the params of the inference request
  gen,            \* ProcessInference: the grammar resolution and the model call
  httpReq,        \* HTTP server: the request on an inference endpoint
  httpResp,       \* HTTP server: the answer written to it
  grammarFile,    \* grammar repository: the file of one (directory, name)
  grammarCall,    \* per HTTP caller: its POST /grammars/<dir>/<name> in progress
  creates,        \* creates of the file that succeeded since its last deletion
  response,       \* harmony: the raw assistant response of the model
  parsed,         \* harmony: what ParseAssistantResponse made of it
  input,          \* harmony: the user input of a prompt
  level,          \* harmony: the reasoning level chosen for it
  embeddingService, \* NATSService.embeddingService: nil (0) or an instance
  embPc,          \* per worker task: position in processEmbeddingMessage
  embUsed,        \* per worker task: the instance its last call ran on
  constructed,    \* calls of NewEmbeddingService so far
  arrival,        \* monitor: the heartbeat inside the subscription callback
  call,           \* client: the position and the result of one sendRequest
  clientConn,     \* client: its NATS connection, "open" or "closed"
  callCtx,        \* client: the ctx passed to the call, "live" or "cancelled"
  replySub,       \* client: the subscription on the reply subject exists
  replyChan,      \* client: the replies buffered in replyChan
  replies,        \* responses published to the reply subject so far
  elapsed,        \* client: seconds since the select of the call began
  lost            \* replies published during the call to no subscription

lifecycleVars == <<ctx, conn, exited, lastErr>>

streamVars == <<streamExists, streamSubjects, startPc, snapshot>>

monitorVars == <<threshold, currentTicker, highC, lowC, report>>

healthVars == <<maxMsgs, healthPc, hbC, lastBeat, lastSnapshot, hreq>>

fleetVars == <<services, now, cleanupC, listeners, chanLen, fleetOp>>

inferenceVars == <<params, gen>>

httpVars == <<httpReq, httpResp, grammarFile, grammarCall, creates>>

\* the state of the HTTP server, the harmony formatter and the client
harmonyVars == <<response, parsed, input, level>>

embeddingVars == <<embeddingService, embPc, embUsed, constructed>>

clientVars == <<call, clientConn, callCtx, replySub, replyChan, replies,
                elapsed, lost>>

frontVars == <<httpVars, harmonyVars, embeddingVars, arrival, clientVars>>

\* the state of the health service, the fleet monitor and the text service
otherVars == <<healthVars, fleetVars, inferenceVars, frontVars>>

\* everything but frontVars
backVars == <<mode, subject, stream, payload, ackPending, deliveries, pc, inv,
              pendingCount, activeCount, invocations, naks, published, crashed,
              lifecycleVars, streamVars, monitorVars, healthVars, fleetVars,
              inferenceVars>>

queueVars == <<mode, subject, stream, payload, ackPending, deliveries, pc, inv,
               invocations, naks, published, crashed>>

vars == <<mode, subject, stream, payload, ackPending, deliveries, pc, inv,
          pendingCount, activeCount, invocations, naks, published, crashed,
          lifecycleVars, streamVars, monitorVars, otherVars>>

\* the process is alive: no unrecovered panic, and main has not returned
Running == ~crashed /\ ~exited

NoInv == [msg |-> NoMsg, dseq |-> 0, entered |-> 0, req |-> [parses |-> FALSE, replyTo |-> NoReply],
          handler |-> "none", outcome |-> "none", respError |-> FALSE,
          trace |-> <<>>]

\* one step of a handler invocation, as recorded in its trace: the
\* operation, its argument (the subject published to, the audit status),
\* the request id it concerns, and how the call ended
Ev(op, arg, id, res) == [op |-> op, arg |-> arg, id |-> id, res |-> res]

Count(trace, op) == Len(SelectSeq(trace, LAMBDA e : e.op = op))

\* the queue, the worker pool and the counters before any request
QueueInit ==
  /\ stream = [m \in MsgIds |-> "unpublished"]
  /\ payload = [m \in MsgIds |-> CHOOSE p \in ValidPayloads : TRUE]
  /\ ackPending = [m \in MsgIds |-> FALSE]
  /\ deliveries = [m \in MsgIds |-> 0]
  /\ pc = [w \in Workers |-> "fetch"]
  /\ inv = [w \in Workers |-> NoInv]
  /\ pendingCount = 0
  /\ activeCount = 0
  /\ invocations = [m \in MsgIds |-> 0]
  /\ naks = [m \in MsgIds |-> 0]
  /\ published = [m \in MsgIds |-> 0]
  /\ crashed = FALSE

\* main: context.WithCancel(context.Background()), a connected client
LifecycleInit ==
  /\ ctx = "live"
  /\ conn = "open"
  /\ exited = FALSE
  /\ lastErr = [w \in Workers |-> "none"]

\* ensureStream has run: the stream exists and lists the worker's subject
StreamStarted ==
  /\ streamExists = TRUE
  /\ streamSubjects = {subject}
  /\ startPc = [p \in Starters |-> "started"]
  /\ snapshot = [p \in Starters |-> {}]

\* monitorBackpressure before its first tick: currentTicker = lowLoadTicker
MonitorInit ==
  /\ currentTicker = "low"
  /\ highC = FALSE
  /\ lowC = FALSE
  /\ report = NoReport

\* HealthService.Start has run: the health topic is subscribed and
\* publishHeartbeats waits for its first tick
HealthStarted ==
  /\ healthPc = "loop"
  /\ hbC = FALSE
  /\ lastBeat = NoBeat
  /\ lastSnapshot = NoSnapshot
  /\ hreq = [r \in Requesters |-> "idle"]

HealthInit ==
  /\ maxMsgs = DefaultMaxMsgs
  /\ HealthStarted

\* NewMonitorService: no record, no listener
FleetInit ==
  /\ services = [m \in Models |-> NoRecord]
  /\ now = 0
  /\ cleanupC = FALSE
  /\ listeners = {}
  /\ chanLen = [c \in Clients |-> 0]
  /\ fleetOp = NoOp

\* a request without params, before the text service saw it
InferenceInit ==
  /\ params = NoParams
  /\ gen = NoGen

\* the HTTP server before any request, the grammar directory empty
HttpInit ==
  /\ httpReq = NoHttp
  /\ httpResp = NoAnswer
  /\ grammarFile = NoFile
  /\ grammarCall = [c \in Callers |-> NoCall]
  /\ creates = 0

\* nothing generated, nothing parsed
HarmonyInit ==
  /\ response = <<>>
  /\ parsed = NoParse
  /\ input = <<>>
  /\ level = NoLevel

\* NewNATSService leaves embeddingService nil
EmbeddingInit ==
  /\ embeddingService = NilInstance
  /\ embPc = [t \in Tasks |-> "idle"]
  /\ embUsed = [t \in Tasks |-> NilInstance]
  /\ constructed = 0

\* NewNATSClient returned a connected client; no call yet
ClientInit ==
  /\ call = NoRequest
  /\ clientConn = "open"
  /\ callCtx = "live"
  /\ replySub = FALSE
  /\ replyChan = <<>>
  /\ replies = 0
  /\ elapsed = 0
  /\ lost = 0

FrontInit ==
  HttpInit /\ HarmonyInit /\ EmbeddingInit /\ arrival = NoArrival /\ ClientInit

OtherInit == HealthInit /\ FleetInit /\ InferenceInit /\ FrontInit

Init ==
  /\ mode \in {"text", "audio"}
  /\ subject \in Subjects
  /\ QueueInit
  /\ LifecycleInit
  /\ StreamStarted
  /\ threshold = BackpressureThreshold
  /\ MonitorInit
  /\ OtherInit

(* ----------------------------------------------------- the message bus *)

\* a client publishes request m on one of the stream's subjects
PublishRequest(m) ==
  /\ stream[m] = "unpublished"
  /\ \A k \in MsgIds : k < m => stream[k] # "unpublished"
  /\ \E p \in ValidPayloads : payload' = [payload EXCEPT ![m] = p]
  /\ stream' = [stream EXCEPT ![m] = "stored"]
  /\ UNCHANGED <<mode, subject, ackPending, deliveries, pc, inv, pendingCount,
                 activeCount, invocations, naks, published, crashed>>
  /\ UNCHANGED <<lifecycleVars, streamVars, monitorVars, otherVars>>

\* the consumer may hand m to a fetch: it is in the stream, no delivery of
\* it awaits acknowledgement, and the consumer's MaxDeliver is not used up
Deliverable(m) ==
  /\ stream[m] = "stored"
  /\ ~ackPending[m]
  /\ deliveries[m] < MaxDeliveries
  /\ (ConsumerMaxDeliver = 0 - 1 \/ deliveries[m] < ConsumerMaxDeliver)

\* the consumer's ack wait (server default 30 s) ran out for a delivery that
\* was neither acknowledged nor negatively acknowledged
AckWaitExpire(m) ==
  /\ stream[m] = "stored"
  /\ ackPending[m]
  /\ deliveries[m] < MaxDeliveries
  /\ ackPending' = [ackPending EXCEPT ![m] = FALSE]
  /\ UNCHANGED <<mode, subject, stream, payload, deliveries, pc, inv, pendingCount,
                 activeCount, invocations, naks, published, crashed>>
  /\ UNCHANGED <<lifecycleVars, streamVars, monitorVars, otherVars>>

\* server side of msg.Nak(): the message becomes deliverable again; on a
\* closed connection the Nak returns an error and never arrives
NakAtServer(m) ==
  IF conn = "open" THEN [ackPending EXCEPT ![m] = FALSE] ELSE ackPending

\* how a call on the connection that the server answers can end
Sent == IF conn = "open" THEN "ok" ELSE "failed"

\* server side of msg.Ack() under work-queue retention: the message is
\* removed from the stream; an Ack that returned an error never arrived
AckAtServer(m, ok) == IF ok THEN [stream EXCEPT ![m] = "removed"] ELSE stream

(* ------------------------------------------------------ NATSService.worker *)

\* The top of the worker's loop, select { case <-ctx.Done(): return;
\* default: ... }: the worker returns if the context is cancelled and
\* calls consumer.Fetch otherwise.
LoopTop == IF ctx = "cancelled" THEN "stopped" ELSE "fetch"

\* consumer.Fetch(1, ...) returned a message
Fetch(w, m) ==
  /\ Running
  /\ pc[w] = "fetch"
  /\ conn = "open"
  /\ Deliverable(m)
  /\ deliveries' = [deliveries EXCEPT ![m] = @ + 1]
  /\ ackPending' = [ackPending EXCEPT ![m] = TRUE]
  /\ inv' = [inv EXCEPT ![w] = [NoInv EXCEPT !.msg = m, !.dseq = deliveries[m] + 1]]
  /\ pc' = [pc EXCEPT ![w] = "gotMsg"]
  /\ UNCHANGED <<mode, subject, stream, payload, pendingCount, activeCount,
                 invocations, naks, published, crashed>>
  /\ UNCHANGED <<lifecycleVars, streamVars, monitorVars, otherVars>>

\* consumer.Fetch returned nats.ErrTimeout: continue with the next loop
\* iteration at once
FetchTimeout(w) ==
  /\ Running
  /\ pc[w] = "fetch"
  /\ conn = "open"
  /\ pc' = [pc EXCEPT ![w] = LoopTop]
  /\ UNCHANGED <<mode, subject, stream, payload, ackPending, deliveries, inv,
                 pendingCount, activeCount, invocations, naks, published, crashed>>
  /\ UNCHANGED <<lifecycleVars, streamVars, monitorVars, otherVars>>

\* where the worker goes after a fetch error other than a timeout: it logs
\* the error and sleeps, whatever the error is
AfterFetchError(err) == "backoff"

\* consumer.Fetch returned an error other than a timeout: a transient one
\* while the connection is open, nats.ErrConnectionClosed once it is closed
FetchError(w) ==
  /\ Running
  /\ pc[w] = "fetch"
  /\ LET err == IF conn = "closed" THEN "closed" ELSE "transient"
     IN /\ lastErr' = [lastErr EXCEPT ![w] = err]
        /\ pc' = [pc EXCEPT ![w] = AfterFetchError(err)]
  /\ UNCHANGED <<mode, subject, stream, payload, ackPending, deliveries, inv,
                 pendingCount, activeCount, invocations, naks, published, crashed>>
  /\ UNCHANGED <<ctx, conn, exited, streamVars, monitorVars, otherVars>>

\* time.Sleep(time.Second) is over: continue with the next loop iteration
Backoff(w) ==
  /\ Running
  /\ pc[w] = "backoff"
  /\ lastErr' = [lastErr EXCEPT ![w] = "none"]
  /\ pc' = [pc EXCEPT ![w] = LoopTop]
  /\ UNCHANGED <<mode, subject, stream, payload, ackPending, deliveries, inv,
                 pendingCount, activeCount, invocations, naks, published, crashed>>
  /\ UNCHANGED <<ctx, conn, exited, streamVars, monitorVars, otherVars>>

\* s.monitoring.IncrementPending()
IncrementPending(w) ==
  /\ Running
  /\ pc[w] = "gotMsg"
  /\ pendingCount' = pendingCount + 1
  /\ pc' = [pc EXCEPT ![w] = "dispatch"]
  /\ UNCHANGED <<mode, subject, stream, payload, ackPending, deliveries, inv,
                 activeCount, invocations, naks, published, crashed>>
  /\ UNCHANGED <<lifecycleVars, streamVars, monitorVars, otherVars>>

\* mutant: the loop over the fetched batch dispatches the message again
DecrementPendingRedispatch(w) ==
  /\ Running
  /\ pc[w] = "dispatched"
  /\ pc' = [pc EXCEPT ![w] = "dispatch"]
  /\ UNCHANGED <<mode, subject, stream, payload, ackPending, deliveries, inv,
                 pendingCount, activeCount, invocations, naks, published, crashed>>
  /\ UNCHANGED <<lifecycleVars, streamVars, monitorVars, otherVars>>

\* mutant: pending is not decremented for a message that was NAKed
DecrementPendingSkipAfterNak(w) ==
  /\ Running
  /\ pc[w] = "dispatched"
  /\ pendingCount' = IF Count(inv[w].trace, "nak") > 0
                       THEN pendingCount ELSE pendingCount - 1
  /\ pc' = [pc EXCEPT ![w] = LoopTop]
  /\ inv' = [inv EXCEPT ![w] = NoInv]
  /\ UNCHANGED <<mode, subject, stream, payload, ackPending, deliveries,
                 activeCount, invocations, naks, published, crashed>>
  /\ UNCHANGED <<lifecycleVars, streamVars, monitorVars, otherVars>>

\* s.monitoring.DecrementPending(), then the next loop iteration
DecrementPending(w) ==
  /\ Running
  /\ pc[w] = "dispatched"
  /\ pendingCount' = pendingCount - 1
  /\ pc' = [pc EXCEPT ![w] = LoopTop]
  /\ inv' = [inv EXCEPT ![w] = NoInv]
  /\ UNCHANGED <<mode, subject, stream, payload, ackPending, deliveries,
                 activeCount, invocations, naks, published, crashed>>
  /\ UNCHANGED <<lifecycleVars, streamVars, monitorVars, otherVars>>

(* ---------------------------------------------- NATSService.processMessage *)

Req(w) == payload[inv[w].msg]

Step(w, ev) == Append(inv[w].trace, ev)

\* processAudioMessage only: s.audioService is nil unless main wired the
\* audio service into the NATS service
ServiceMissing(handler) == handler = "audio" /\ mode # "audio"

\* mutant: a parse error is logged but the handler does not return
RejectedParseIgnored(req, handler) == ServiceMissing(handler)

\* The handler returns before calling its service: json.Unmarshal failed,
\* or (audio) there is no service.  Both paths call msg.Nak() and return.
Rejected(req, handler) == ~req.parses \/ ServiceMissing(handler)

\* processMessage up to the service call: IncrementActive (with the
\* deferred DecrementActive), routing by subject, then in the handler
\* json.Unmarshal(msg.Data, &req)
EnterHandler(w) ==
  /\ Running
  /\ pc[w] = "dispatch"
  /\ activeCount' = activeCount + 1
  /\ LET h == Route(subject)
         r == [parses |-> Req(w).parses,
               replyTo |-> IF Req(w).parses THEN Req(w).replyTo ELSE NoReply]
     IN IF Rejected(r, h)
          THEN /\ inv' = [inv EXCEPT ![w].handler = h, ![w].entered = @ + 1,
                                     ![w].req = r,
                                     ![w].trace = Step(w, Ev("nak", "", inv[w].msg, Sent))]
               /\ ackPending' = NakAtServer(inv[w].msg)
               /\ naks' = [naks EXCEPT ![inv[w].msg] = @ + 1]
               /\ pc' = [pc EXCEPT ![w] = "return"]
          ELSE /\ inv' = [inv EXCEPT ![w].handler = h, ![w].entered = @ + 1,
                                     ![w].req = r]
               /\ pc' = [pc EXCEPT ![w] = "service"]
               /\ UNCHANGED <<ackPending, naks>>
  /\ invocations' = [invocations EXCEPT ![inv[w].msg] = @ + 1]
  /\ UNCHANGED <<mode, subject, stream, payload, deliveries, pendingCount,
                 published, crashed>>
  /\ UNCHANGED <<lifecycleVars, streamVars, monitorVars, otherVars>>

(* ------------------------------------------------------------ the services *)

\* What the model call inside a service can do: succeed, return an error
\* (for embeddings and audio this includes the input validation errors),
\* or panic.
Outcomes == {"ok", "error", "panic"}

\* The handler's service pointer is nil for this wiring: main builds either
\* the inference service (text and embedding models) or the audio service.
NilService(handler) == handler \in {"inference", "embedding"} /\ mode # "text"

\* Does the service recover a panic of the model call?  Only
\* ProcessInference installs a recover().
Recovers(handler) == handler = "inference"

\* The audit entries (RequestLog status values) a service call writes.
\* ProcessInference logs on every path; ProcessEmbedding logs only on its
\* success path; ProcessTranscription never logs.
AuditOf(handler, outcome) ==
  IF handler = "inference"
    THEN <<IF outcome = "ok" THEN "ok"
           ELSE IF outcome = "error" THEN "error" ELSE "panic">>
  ELSE IF handler = "embedding" /\ outcome = "ok" THEN <<"ok">>
  ELSE <<>>

\* the steps of one service call: the call, then its audit entries
ServiceSteps(handler, outcome, reqId) ==
  <<Ev("svc", "", reqId, outcome)>> \o
  [i \in 1..Len(AuditOf(handler, outcome)) |->
     Ev("audit", AuditOf(handler, outcome)[i], reqId, "ok")]

\* mutant: the error of a returned error is not copied into the response
ResponseErrorDropped(outcome) == outcome = "panic"

\* response.Error is set
ResponseError(outcome) == outcome # "ok"

\* json.Marshal(response) fails only on a float that JSON cannot carry (NaN,
\* Inf): the embedding vectors and the audio segment times of a successful
\* response.  InferenceResponse and error responses hold strings and ints.
MarshalCanFail(handler, outcome) ==
  handler \in {"embedding", "audio"} /\ outcome = "ok"

\* mutant: the publish is skipped
AfterMarshalNoPublish(replyTo) == "ack"

\* where the handler goes once the response is serialized
AfterMarshal(replyTo) == IF replyTo # NoReply THEN "publish" ELSE "ack"

\* The service call returns to the handler with a response, which the
\* handler serializes; a response that does not serialize is negatively
\* acknowledged and the handler returns.
CallService(w) ==
  /\ Running
  /\ pc[w] = "service"
  /\ ~NilService(inv[w].handler)
  /\ \E o \in Outcomes :
       /\ o = "panic" => Recovers(inv[w].handler)
       /\ \E marshalled \in (IF MarshalCanFail(inv[w].handler, o)
                               THEN BOOLEAN ELSE {TRUE}) :
            LET t == inv[w].trace \o ServiceSteps(inv[w].handler, o, inv[w].msg)
            IN IF marshalled
                 THEN /\ inv' = [inv EXCEPT ![w].outcome = o,
                                            ![w].respError = ResponseError(o),
                                            ![w].trace = t]
                      /\ pc' = [pc EXCEPT ![w] = AfterMarshal(inv[w].req.replyTo)]
                      /\ UNCHANGED <<ackPending, naks>>
                 ELSE /\ inv' = [inv EXCEPT ![w].outcome = o,
                                            ![w].respError = ResponseError(o),
                                            ![w].trace =
                                               Append(t, Ev("nak", "", inv[w].msg, Sent))]
                      /\ ackPending' = NakAtServer(inv[w].msg)
                      /\ naks' = [naks EXCEPT ![inv[w].msg] = @ + 1]
                      /\ pc' = [pc EXCEPT ![w] = "return"]
  /\ UNCHANGED <<mode, subject, stream, payload, deliveries, pendingCount,
                 activeCount, invocations, published, crashed>>
  /\ UNCHANGED <<lifecycleVars, streamVars, monitorVars, otherVars>>

\* A panic nobody recovers: the model call panics in a service without
\* recover(), or the handler dereferences a nil service.  The deferred
\* DecrementActive of processMessage runs while the panic unwinds, then the
\* Go runtime ends the process.
Panic(w) ==
  /\ Running
  /\ pc[w] = "service"
  /\ NilService(inv[w].handler) \/ ~Recovers(inv[w].handler)
  /\ inv' = [inv EXCEPT ![w].outcome = "panic",
                        ![w].trace = IF NilService(inv[w].handler)
                                       THEN inv[w].trace
                                       ELSE Step(w, Ev("svc", "", inv[w].msg, "panic"))]
  /\ activeCount' = activeCount - 1
  /\ pc' = [pc EXCEPT ![w] = "panicked"]
  /\ crashed' = TRUE
  /\ UNCHANGED <<mode, subject, stream, payload, ackPending, deliveries, pendingCount,
                 invocations, naks, published>>
  /\ UNCHANGED <<lifecycleVars, streamVars, monitorVars, otherVars>>

(* ---------------------------------------------------- publish, acknowledge *)

\* mutant: a failed publish makes the handler return
AfterPublishReturnOnError(ok) == IF ok THEN "ack" ELSE "return"

\* where the handler goes after s.conn.Publish returned: to msg.Ack(),
\* whether or not the publish failed
AfterPublish(ok) == "ack"

\* s.conn.Publish(req.ReplyTo, responseData)
PublishResponse(w) ==
  /\ Running
  /\ pc[w] = "publish"
  /\ \E ok \in BOOLEAN :
       /\ ok => conn = "open"
       /\ inv' = [inv EXCEPT ![w].trace =
                    Step(w, Ev("pub", ReplySubject(inv[w].req, inv[w].msg), inv[w].msg,
                               IF ok THEN "ok" ELSE "failed"))]
       /\ published' = [published EXCEPT ![inv[w].msg] = IF ok THEN @ + 1 ELSE @]
       /\ pc' = [pc EXCEPT ![w] = AfterPublish(ok)]
  /\ UNCHANGED <<mode, subject, stream, payload, ackPending, deliveries,
                 pendingCount, activeCount, invocations, naks, crashed>>
  /\ UNCHANGED <<lifecycleVars, streamVars, monitorVars, otherVars>>

\* msg.Ack(); an error is logged and the handler goes on
AckMessage(w) ==
  /\ Running
  /\ pc[w] = "ack"
  /\ \E ok \in BOOLEAN :
       /\ ok => conn = "open"
       /\ inv' = [inv EXCEPT ![w].trace =
                    Step(w, Ev("ack", "", inv[w].msg, IF ok THEN "ok" ELSE "failed"))]
       /\ stream' = AckAtServer(inv[w].msg, ok)
  /\ pc' = [pc EXCEPT ![w] = "return"]
  /\ UNCHANGED <<mode, subject, payload, ackPending, deliveries, pendingCount,
                 activeCount, invocations, naks, published, crashed>>
  /\ UNCHANGED <<lifecycleVars, streamVars, monitorVars, otherVars>>

\* mutant: DecrementActive is not deferred and is skipped on return
ReturnFromHandlerNoDecrement(w) ==
  /\ Running
  /\ pc[w] = "return"
  /\ pc' = [pc EXCEPT ![w] = "dispatched"]
  /\ UNCHANGED <<mode, subject, stream, payload, ackPending, deliveries, inv,
                 pendingCount, activeCount, invocations, naks, published, crashed>>
  /\ UNCHANGED <<lifecycleVars, streamVars, monitorVars, otherVars>>

\* the handler returned: the deferred DecrementActive of processMessage
ReturnFromHandler(w) ==
  /\ Running
  /\ pc[w] = "return"
  /\ activeCount' = activeCount - 1
  /\ pc' = [pc EXCEPT ![w] = "dispatched"]
  /\ UNCHANGED <<mode, subject, stream, payload, ackPending, deliveries, inv,
                 pendingCount, invocations, naks, published, crashed>>
  /\ UNCHANGED <<lifecycleVars, streamVars, monitorVars, otherVars>>

Next ==
  \/ \E m \in MsgIds : PublishRequest(m)
  \/ \E m \in MsgIds : AckWaitExpire(m)
  \/ \E w \in Workers, m \in MsgIds : Fetch(w, m)
  \/ \E w \in Workers : FetchTimeout(w)
  \/ \E w \in Workers : IncrementPending(w)
  \/ \E w \in Workers : EnterHandler(w)
  \/ \E w \in Workers : CallService(w)
  \/ \E w \in Workers : Panic(w)
  \/ \E w \in Workers : PublishResponse(w)
  \/ \E w \in Workers : AckMessage(w)
  \/ \E w \in Workers : ReturnFromHandler(w)
  \/ \E w \in Workers : DecrementPending(w)

Spec == Init /\ [][Next]_vars

(* ------------------------------------------------- shutdown and failures *)

\* main: a signal arrives on sig, main logs and returns; the deferred
\* cancel() cancels the context shared by all services
Signal ==
  /\ Running
  /\ ctx = "live"
  /\ ctx' = "cancelled"
  /\ UNCHANGED <<queueVars, pendingCount, activeCount, conn, exited, lastErr,
                 streamVars, monitorVars, otherVars>>

\* main returns after its deferred cancel(): the Go runtime ends the
\* process, whatever the other goroutines are doing
MainReturn ==
  /\ Running
  /\ ctx = "cancelled"
  /\ exited' = TRUE
  /\ UNCHANGED <<queueVars, pendingCount, activeCount, ctx, conn, lastErr,
                 streamVars, monitorVars, otherVars>>

\* NATSService.Start: <-ctx.Done() returned, s.conn.Close()
CloseConn ==
  /\ Running
  /\ ctx = "cancelled"
  /\ conn = "open"
  /\ conn' = "closed"
  /\ UNCHANGED <<queueVars, pendingCount, activeCount, ctx, exited, lastErr,
                 streamVars, monitorVars, otherVars>>

\* The connection made by nats.Connect(cfg.NatsURL) is lost for good: the
\* client gives up reconnecting and closes it.
ConnLost ==
  /\ Running
  /\ conn = "open"
  /\ conn' = "closed"
  /\ UNCHANGED <<queueVars, pendingCount, activeCount, ctx, exited, lastErr,
                 streamVars, monitorVars, otherVars>>

\* the request followed through shutdown and connection loss
OneMsg == {1}

NextLifecycle ==
  \/ \E m \in OneMsg : PublishRequest(m)
  \/ \E m \in OneMsg : AckWaitExpire(m)
  \/ \E w \in Workers, m \in OneMsg : Fetch(w, m)
  \/ \E w \in Workers : FetchTimeout(w)
  \/ \E w \in Workers : FetchError(w)
  \/ \E w \in Workers : Backoff(w)
  \/ \E w \in Workers : IncrementPending(w)
  \/ \E w \in Workers : EnterHandler(w)
  \/ \E w \in Workers : CallService(w)
  \/ \E w \in Workers : Panic(w)
  \/ \E w \in Workers : PublishResponse(w)
  \/ \E w \in Workers : AckMessage(w)
  \/ \E w \in Workers : ReturnFromHandler(w)
  \/ \E w \in Workers : DecrementPending(w)
  \/ Signal
  \/ MainReturn
  \/ CloseConn
  \/ ConnLost

\* the worker pool with shutdown, connection loss and fetch errors
SpecLifecycle == Init /\ [][NextLifecycle]_vars

(* ------------------------------------------------ NATSService.ensureStream *)

\* cfg.Subject of starting process p: each process serves its own model
StartSubject(p) == <<"inference", ".", "request", ".", ToString(p)>>

\* a subject the stream may list before any of the processes starts
OtherSubject == <<"inference", ".", "request", ".", "M">>

\* s.js.StreamInfo(s.cfg.Stream) and the branch taken on its result: the
\* stream is not found, it lists the subject already, or it has to be
\* updated; any other error ends the startup
StreamInfo(p) ==
  /\ startPc[p] = "info"
  /\ \E failed \in BOOLEAN :
       IF failed
         THEN /\ startPc' = [startPc EXCEPT ![p] = "failed"]
              /\ UNCHANGED snapshot
       ELSE IF ~streamExists
         THEN /\ startPc' = [startPc EXCEPT ![p] = "add"]
              /\ UNCHANGED snapshot
       ELSE IF StartSubject(p) \in streamSubjects
         THEN /\ startPc' = [startPc EXCEPT ![p] = "started"]
              /\ UNCHANGED snapshot
       ELSE /\ startPc' = [startPc EXCEPT ![p] = "update"]
            /\ snapshot' = [snapshot EXCEPT ![p] = streamSubjects]
  /\ UNCHANGED <<streamExists, streamSubjects>>
  /\ UNCHANGED <<queueVars, pendingCount, activeCount, lifecycleVars, monitorVars, otherVars>>

\* s.js.AddStream with Subjects: []string{s.cfg.Subject}; the server
\* refuses to add a stream whose name is in use with another configuration
AddStream(p) ==
  /\ startPc[p] = "add"
  /\ IF streamExists /\ streamSubjects # {StartSubject(p)}
       THEN /\ startPc' = [startPc EXCEPT ![p] = "failed"]
            /\ UNCHANGED <<streamExists, streamSubjects>>
       ELSE /\ streamExists' = TRUE
            /\ streamSubjects' = {StartSubject(p)}
            /\ startPc' = [startPc EXCEPT ![p] = "started"]
  /\ UNCHANGED snapshot
  /\ UNCHANGED <<queueVars, pendingCount, activeCount, lifecycleVars, monitorVars, otherVars>>

\* s.js.UpdateStream(&newConfig), newConfig.Subjects being the subjects
\* StreamInfo returned with s.cfg.Subject appended: the server replaces
\* the stream's configuration by newConfig
UpdateStream(p) ==
  /\ startPc[p] = "update"
  /\ \E failed \in BOOLEAN :
       IF failed
         THEN /\ startPc' = [startPc EXCEPT ![p] = "failed"]
              /\ UNCHANGED streamSubjects
         ELSE /\ startPc' = [startPc EXCEPT ![p] = "started"]
              /\ streamSubjects' = snapshot[p] \cup {StartSubject(p)}
  /\ UNCHANGED <<streamExists, snapshot>>
  /\ UNCHANGED <<queueVars, pendingCount, activeCount, lifecycleVars, monitorVars, otherVars>>

\* the processes are about to start; the stream does not exist yet, or
\* exists with a subject of some other worker
InitStream ==
  /\ mode = "text"
  /\ subject = OtherSubject
  /\ QueueInit
  /\ LifecycleInit
  /\ \/ streamExists = FALSE /\ streamSubjects = {}
     \/ streamExists = TRUE /\ streamSubjects = {OtherSubject}
  /\ startPc = [p \in Starters |-> "info"]
  /\ snapshot = [p \in Starters |-> {}]
  /\ threshold = BackpressureThreshold
  /\ MonitorInit
  /\ OtherInit

NextStream ==
  \/ \E p \in Starters : StreamInfo(p)
  \/ \E p \in Starters : AddStream(p)
  \/ \E p \in Starters : UpdateStream(p)

\* several worker processes, each with its own subject, starting against
\* the same stream
SpecStream == InitStream /\ [][NextStream]_vars

(* ------------------------------------------------------ MonitoringService *)

\* The counters as a pool of PoolSize worker tasks moves them: each
\* dispatch increments pending, then active, then decrements active, then
\* pending, so 0 <= active <= pending <= PoolSize throughout.
MonitoringIncrementPending ==
  /\ pendingCount < PoolSize
  /\ pendingCount' = pendingCount + 1
  /\ UNCHANGED <<queueVars, activeCount, lifecycleVars, streamVars, monitorVars, otherVars>>

MonitoringIncrementActive ==
  /\ activeCount < pendingCount
  /\ activeCount' = activeCount + 1
  /\ UNCHANGED <<queueVars, pendingCount, lifecycleVars, streamVars, monitorVars, otherVars>>

MonitoringDecrementActive ==
  /\ activeCount > 0
  /\ activeCount' = activeCount - 1
  /\ UNCHANGED <<queueVars, pendingCount, lifecycleVars, streamVars, monitorVars, otherVars>>

MonitoringDecrementPending ==
  /\ pendingCount > activeCount
  /\ pendingCount' = pendingCount - 1
  /\ UNCHANGED <<queueVars, activeCount, lifecycleVars, streamVars, monitorVars, otherVars>>

\* mutant: a total equal to the threshold is still a warning
calculateStatusInclusive(pending, active) ==
  LET total == pending + active
  IN IF total = 0 THEN "healthy"
     ELSE IF total <= threshold THEN "warning"
     ELSE "critical"

\* mutant: critical from twice the threshold, as the health snapshot has it
calculateStatusDoubleThreshold(pending, active) ==
  LET total == pending + active
  IN IF total = 0 THEN "healthy"
     ELSE IF total < 2 * threshold THEN "warning"
     ELSE "critical"

calculateStatus(pending, active) ==
  LET total == pending + active
  IN IF total = 0 THEN "healthy"
     ELSE IF total < threshold THEN "warning"
     ELSE "critical"

\* mutant: the monitor goes back to the slow ticker only after two idle
\* samples in a row
SwitchTickerSlowRelease(current, pending) ==
  IF pending > 0 /\ current = "low" THEN "high"
  ELSE IF pending = 0 /\ current = "high" /\ report.pending = 0 THEN "low"
  ELSE current

\* monitorBackpressure: the ticker to wait on after a sample
SwitchTicker(current, pending) ==
  IF pending > 0 /\ current = "low" THEN "high"
  ELSE IF pending = 0 /\ current = "high" THEN "low"
  ELSE current

\* the period of a ticker, in seconds
Period(ticker) == IF ticker = "high" THEN HighLoadPeriod ELSE LowLoadPeriod

\* A ticker fires: the tick is put in its channel, which buffers one tick;
\* the tick is dropped if the channel is full.  Both tickers run all the
\* time, selected or not.
HighLoadTick ==
  /\ highC' = TRUE
  /\ UNCHANGED <<queueVars, pendingCount, activeCount, lifecycleVars, streamVars,
                 threshold, currentTicker, lowC, report, otherVars>>

LowLoadTick ==
  /\ lowC' = TRUE
  /\ UNCHANGED <<queueVars, pendingCount, activeCount, lifecycleVars, streamVars,
                 threshold, currentTicker, highC, report, otherVars>>

\* reportBackpressure: the report built from a sample and handed to
\* m.nats.Publish, which may fail (the failure is logged)
reportBackpressure(pending, active, ok) ==
  [pending |-> pending, active |-> active,
   status |-> calculateStatus(pending, active), sent |-> ok]

\* monitorBackpressure, case <-currentTicker.C: load the counters, switch
\* the ticker, report
Tick ==
  /\ Running
  /\ ctx = "live"
  /\ \/ currentTicker = "high" /\ highC /\ highC' = FALSE /\ UNCHANGED lowC
     \/ currentTicker = "low" /\ lowC /\ lowC' = FALSE /\ UNCHANGED highC
  /\ currentTicker' = SwitchTicker(currentTicker, pendingCount)
  /\ \E ok \in BOOLEAN :
       report' = reportBackpressure(pendingCount, activeCount, ok)
  /\ UNCHANGED <<queueVars, pendingCount, activeCount, lifecycleVars, streamVars,
                 threshold, otherVars>>

InitMonitor ==
  /\ mode = "text"
  /\ subject = OtherSubject
  /\ QueueInit
  /\ LifecycleInit
  /\ StreamStarted
  /\ threshold \in 1..MaxThreshold
  /\ MonitorInit
  /\ OtherInit

NextMonitor ==
  \/ MonitoringIncrementPending
  \/ MonitoringIncrementActive
  \/ MonitoringDecrementActive
  \/ MonitoringDecrementPending
  \/ HighLoadTick
  \/ LowLoadTick
  \/ Tick

\* the backpressure monitor beside a pool of PoolSize worker tasks
SpecMonitor == InitMonitor /\ [][NextMonitor]_vars

(* ---------------------------------------------------------- HealthService *)

\* getQueueMetrics: "if threshold == 0 { threshold = 5 }"
DefaultThreshold == 5

\* mutant: critical from the threshold on, as the backpressure report has it
getQueueMetricsSingleThreshold(pending) ==
  LET t == IF threshold = 0 THEN DefaultThreshold ELSE threshold
  IN [pending |-> pending, capacity |-> maxMsgs,
      level |-> IF pending >= t THEN "critical"
                ELSE IF pending > 0 THEN "warning" ELSE "healthy",
      utilization |-> IF maxMsgs > 0 THEN <<pending, maxMsgs>> ELSE <<0, 1>>,
      threshold |-> t]

\* getQueueMetrics with a monitoring service: the queue metrics and the
\* backpressure status of a snapshot.  utilization is the fraction
\* <<numerator, denominator>>; it stays at the zero value of float64 when
\* cfg.MaxMsgs is not positive.
getQueueMetrics(pending) ==
  LET t == IF threshold = 0 THEN DefaultThreshold ELSE threshold
  IN [pending |-> pending, capacity |-> maxMsgs,
      level |-> IF pending >= t * 2 THEN "critical"
                ELSE IF pending >= t THEN "warning" ELSE "healthy",
      utilization |-> IF maxMsgs > 0 THEN <<pending, maxMsgs>> ELSE <<0, 1>>,
      threshold |-> t]

\* getHealthStatus: rebuilt from the counters on every call
getHealthStatus == getQueueMetrics(pendingCount)

\* Start: h.nats.Subscribe(healthTopic, handler); on success the heartbeat
\* goroutine is started, on failure Start returns the error
Subscribe ==
  /\ Running
  /\ healthPc = "subscribe"
  /\ \E ok \in BOOLEAN :
       /\ ok => conn = "open"
       /\ healthPc' = IF ok THEN "loop" ELSE "failed"
  /\ UNCHANGED <<maxMsgs, hbC, lastBeat, lastSnapshot, hreq>>
  /\ UNCHANGED <<queueVars, pendingCount, activeCount, lifecycleVars, streamVars,
                 monitorVars, fleetVars, inferenceVars, frontVars>>

\* time.NewTicker(30 * time.Second) fires: the tick is put in the channel,
\* which buffers one tick; a tick that finds the channel full is dropped
HeartbeatTick ==
  /\ Running
  /\ healthPc = "loop"
  /\ hbC' = TRUE
  /\ UNCHANGED <<maxMsgs, healthPc, lastBeat, lastSnapshot, hreq>>
  /\ UNCHANGED <<queueVars, pendingCount, activeCount, lifecycleVars, streamVars,
                 monitorVars, fleetVars, inferenceVars, frontVars>>

\* how the body of one tick can end: the snapshot was published, Publish
\* returned an error, or building the snapshot panicked
BeatOutcomes == {"published", "failed", "panicked"}

\* mutant: the panic of a tick is not recovered and ends the goroutine
AfterBeatPanicEnds(outcome) == IF outcome = "panicked" THEN "stopped" ELSE "loop"

\* where publishHeartbeats goes after the body of a tick: the deferred
\* recover() swallows a panic, an error is logged, the for loop goes on
AfterBeat(outcome) == "loop"

\* publishHeartbeats, case <-ticker.C
Heartbeat ==
  /\ Running
  /\ healthPc = "loop"
  /\ hbC
  /\ hbC' = FALSE
  /\ \E o \in BeatOutcomes :
       /\ o = "published" => conn = "open"
       /\ lastBeat' = [outcome |-> o, prev |-> lastBeat.outcome]
       /\ lastSnapshot' = IF o = "panicked" THEN lastSnapshot ELSE getHealthStatus
       /\ healthPc' = AfterBeat(o)
  /\ UNCHANGED <<maxMsgs, hreq>>
  /\ UNCHANGED <<queueVars, pendingCount, activeCount, lifecycleVars, streamVars,
                 monitorVars, fleetVars, inferenceVars, frontVars>>

\* publishHeartbeats, case <-ctx.Done(): return (the deferred ticker.Stop())
HeartbeatStop ==
  /\ Running
  /\ healthPc = "loop"
  /\ ctx = "cancelled"
  /\ healthPc' = "stopped"
  /\ UNCHANGED <<maxMsgs, hbC, lastBeat, lastSnapshot, hreq>>
  /\ UNCHANGED <<queueVars, pendingCount, activeCount, lifecycleVars, streamVars,
                 monitorVars, fleetVars, inferenceVars, frontVars>>

\* The subscription made by Start delivers: Start discards the
\* *nats.Subscription, so nothing unsubscribes it; it lasts as long as the
\* connection and the process.
Subscribed == Running /\ conn = "open" /\ healthPc \in {"loop", "stopped"}

\* msg.Reply of a health request.  QueryHealth sends with nats.Request, which
\* sets a reply inbox.  CheckHealth sends with conn.Publish, which sets none:
\* its reply subject travels in the payload, as reply_to.
HealthMsgReply(r) == IF r = "monitor" THEN "_INBOX" ELSE NoReply

\* a requester sends a health request on models.<name>.health
HealthRequest(r) ==
  /\ hreq[r] \in {"idle", "answered", "timeout"}
  /\ hreq' = [hreq EXCEPT ![r] = IF Subscribed THEN "sent" ELSE "undelivered"]
  /\ UNCHANGED <<maxMsgs, healthPc, hbC, lastBeat, lastSnapshot>>
  /\ UNCHANGED <<queueVars, pendingCount, activeCount, lifecycleVars, streamVars,
                 monitorVars, fleetVars, inferenceVars, frontVars>>

\* msg.Respond(statusData): publishes to msg.Reply; without a reply subject
\* it returns ErrMsgNoReply, on a closed connection ErrConnectionClosed
Respond(reply) ==
  IF reply = NoReply THEN "noreply"
  ELSE IF conn = "open" THEN "answered" ELSE "failed"

\* the subscription handler of Start: build the snapshot, respond
HandleHealth(r) ==
  /\ Running
  /\ hreq[r] = "sent"
  /\ lastSnapshot' = getHealthStatus
  /\ hreq' = [hreq EXCEPT ![r] = Respond(HealthMsgReply(r))]
  /\ UNCHANGED <<maxMsgs, healthPc, hbC, lastBeat>>
  /\ UNCHANGED <<queueVars, pendingCount, activeCount, lifecycleVars, streamVars,
                 monitorVars, fleetVars, inferenceVars, frontVars>>

\* the requester's 5 s ran out without a response
RequestTimeout(r) ==
  /\ hreq[r] \in {"sent", "undelivered", "noreply", "failed"}
  /\ hreq' = [hreq EXCEPT ![r] = "timeout"]
  /\ UNCHANGED <<maxMsgs, healthPc, hbC, lastBeat, lastSnapshot>>
  /\ UNCHANGED <<queueVars, pendingCount, activeCount, lifecycleVars, streamVars,
                 monitorVars, fleetVars, inferenceVars, frontVars>>

\* main has built the health service and is about to start it
InitHealth ==
  /\ mode = "text"
  /\ subject = OtherSubject
  /\ QueueInit
  /\ LifecycleInit
  /\ StreamStarted
  /\ threshold = BackpressureThreshold
  /\ MonitorInit
  /\ maxMsgs = DefaultMaxMsgs
  /\ healthPc = "subscribe"
  /\ hbC = FALSE
  /\ lastBeat = NoBeat
  /\ lastSnapshot = NoSnapshot
  /\ hreq = [r \in Requesters |-> "idle"]
  /\ FleetInit
  /\ InferenceInit
  /\ FrontInit

NextHealth ==
  \/ Subscribe
  \/ HeartbeatTick
  \/ Heartbeat
  \/ HeartbeatStop
  \/ \E r \in Requesters : HealthRequest(r)
  \/ \E r \in Requesters : HandleHealth(r)
  \/ \E r \in Requesters : RequestTimeout(r)
  \/ Signal
  \/ MainReturn
  \/ CloseConn
  \/ ConnLost

\* the health service from Start to shutdown, with its requesters
SpecHealth == InitHealth /\ [][NextHealth]_vars

\* the values of QUEUE_MAX_MSGS the snapshot is checked for: unlimited
\* (-1), 0, a small stream, and the default
Capacities == {0 - 1, 0, 4, DefaultMaxMsgs}

\* the health service running beside a pool of PoolSize worker tasks, for
\* every configured threshold and capacity
InitHeartbeat ==
  /\ mode = "text"
  /\ subject = OtherSubject
  /\ QueueInit
  /\ LifecycleInit
  /\ StreamStarted
  /\ threshold \in 0..MaxThreshold
  /\ MonitorInit
  /\ maxMsgs \in Capacities
  /\ HealthStarted
  /\ FleetInit
  /\ InferenceInit
  /\ FrontInit

NextHeartbeat ==
  \/ MonitoringIncrementPending
  \/ MonitoringDecrementPending
  \/ HeartbeatTick
  \/ Heartbeat
  \/ HeartbeatStop
  \/ Signal

SpecHeartbeat == InitHeartbeat /\ [][NextHeartbeat]_vars

(* ------------------------------------------ the fleet monitor (cmd/monitor) *)

\* cleanupStaleServices: now.Sub(service.LastSeen) > 2*time.Minute
StaleAfter == 2

\* AddListener: make(chan []ServiceStatus, 10)
ChanCap == 10

\* mutant: a record is stale from 2 minutes on
StaleInclusive(rec, t) == t - rec.lastSeen >= StaleAfter

\* the staleness test of cleanupStaleServices at time t
Stale(rec, t) == t - rec.lastSeen > StaleAfter

\* mutant: the send to a listener has no default case
NotifyReadyWhenRoom == \A c \in listeners : chanLen[c] < ChanCap

\* notifyListeners can run to its end: each send is a select with a
\* default case, which is ready whatever the channel holds and whether or
\* not its client still reads
NotifyReady == TRUE

\* notifyListeners: a non-blocking send of the fleet state to every
\* listener channel; a full channel is skipped
notifyListeners ==
  [c \in Clients |->
     IF c \in listeners /\ chanLen[c] < ChanCap THEN chanLen[c] + 1 ELSE chanLen[c]]

\* the operation just done on the fleet state: whether it changed the
\* state, which listeners got the update and which were skipped
Op(op, changed) ==
  [op |-> op, changed |-> changed,
   notified |-> { c \in listeners : chanLen[c] < ChanCap },
   skipped |-> { c \in listeners : chanLen[c] = ChanCap }]

\* mutant: the heartbeat keeps the status of the record it finds
HeartbeatAppliedKeepsStatus(svcs, m, t) ==
  [svcs EXCEPT ![m] = [firstSeen |-> IF svcs[m] # NoRecord
                                       THEN svcs[m].firstSeen ELSE t,
                       lastSeen |-> t,
                       status |-> IF svcs[m] # NoRecord
                                    THEN svcs[m].status ELSE "online"]]

\* the heartbeat handler under m.mu: LastSeen = now, FirstSeen kept from the
\* existing record or set to now, the record replaced by the heartbeat's
\* status (a worker always reports "online")
HeartbeatApplied(svcs, m, t) ==
  [svcs EXCEPT ![m] = [firstSeen |-> IF svcs[m] # NoRecord
                                       THEN svcs[m].firstSeen ELSE t,
                       lastSeen |-> t,
                       status |-> "online"]]

\* A heartbeat of model m arrives on monitoring.models.heartbeat.*.  Every
\* heartbeat changes the record: last_seen is time.Now(), finer than the
\* minutes of this clock.
ReceiveHeartbeat(m) ==
  /\ services' = HeartbeatApplied(services, m, now)
  /\ NotifyReady
  /\ chanLen' = notifyListeners
  /\ fleetOp' = Op("heartbeat", TRUE)
  /\ UNCHANGED <<now, cleanupC, listeners>>
  /\ UNCHANGED <<queueVars, pendingCount, activeCount, lifecycleVars, streamVars,
                 monitorVars, healthVars, inferenceVars, frontVars>>

\* mutant: a discovery result replaces the record it finds
DiscoveredOverwrite(svcs, m, t) ==
  [svcs EXCEPT ![m] = [firstSeen |-> t, lastSeen |-> t, status |-> "online"]]

\* DiscoverServices under m.mu: "Only add if not already tracked"
Discovered(svcs, m, t) ==
  IF svcs[m] = NoRecord
    THEN [svcs EXCEPT ![m] = [firstSeen |-> t, lastSeen |-> t, status |-> "online"]]
    ELSE svcs

\* DiscoverServices, the goroutine of model m after QueryHealth succeeded;
\* notifyListeners is called whether or not a record was added
Discover(m) ==
  /\ services' = Discovered(services, m, now)
  /\ NotifyReady
  /\ chanLen' = notifyListeners
  /\ fleetOp' = Op("discover", services[m] = NoRecord)
  /\ UNCHANGED <<now, cleanupC, listeners>>
  /\ UNCHANGED <<queueVars, pendingCount, activeCount, lifecycleVars, streamVars,
                 monitorVars, healthVars, inferenceVars, frontVars>>

\* a minute passes: time.NewTicker(time.Minute) puts a tick in its channel
Advance ==
  /\ now < MaxTime
  /\ now' = now + 1
  /\ cleanupC' = TRUE
  /\ UNCHANGED <<services, listeners, chanLen, fleetOp>>
  /\ UNCHANGED <<queueVars, pendingCount, activeCount, lifecycleVars, streamVars,
                 monitorVars, healthVars, inferenceVars, frontVars>>

\* mutant: stale records are deleted
MarkStaleDelete(svcs, t) ==
  [m \in Models |->
     IF svcs[m] # NoRecord /\ Stale(svcs[m], t) THEN NoRecord ELSE svcs[m]]

\* the loop body of cleanupStaleServices under m.mu
MarkStale(svcs, t) ==
  [m \in Models |->
     IF svcs[m] # NoRecord /\ Stale(svcs[m], t) /\ svcs[m].status # "offline"
       THEN [svcs[m] EXCEPT !.status = "offline"]
       ELSE svcs[m]]

\* cleanupStaleServices, case <-ticker.C: mark, then notifyListeners
Cleanup ==
  /\ cleanupC
  /\ cleanupC' = FALSE
  /\ services' = MarkStale(services, now)
  /\ NotifyReady
  /\ chanLen' = notifyListeners
  /\ fleetOp' = Op("cleanup", MarkStale(services, now) # services)
  /\ UNCHANGED <<now, listeners>>
  /\ UNCHANGED <<queueVars, pendingCount, activeCount, lifecycleVars, streamVars,
                 monitorVars, healthVars, inferenceVars, frontVars>>

\* GET /api/events: the initial data is written, then AddListener appends
\* the client's channel to m.listeners (nothing ever removes it)
Connect(c) ==
  /\ c \notin listeners
  /\ listeners' = listeners \cup {c}
  /\ UNCHANGED <<services, now, cleanupC, chanLen, fleetOp>>
  /\ UNCHANGED <<queueVars, pendingCount, activeCount, lifecycleVars, streamVars,
                 monitorVars, healthVars, inferenceVars, frontVars>>

\* /api/events, case services := <-updates: one event is written
SendEvent(c) ==
  /\ c \in listeners
  /\ chanLen[c] > 0
  /\ chanLen' = [chanLen EXCEPT ![c] = @ - 1]
  /\ UNCHANGED <<services, now, cleanupC, listeners, fleetOp>>
  /\ UNCHANGED <<queueVars, pendingCount, activeCount, lifecycleVars, streamVars,
                 monitorVars, healthVars, inferenceVars, frontVars>>

InitFleet ==
  /\ mode = "text"
  /\ subject = OtherSubject
  /\ QueueInit
  /\ LifecycleInit
  /\ StreamStarted
  /\ threshold = BackpressureThreshold
  /\ MonitorInit
  /\ OtherInit

NextFleet ==
  \/ \E m \in Models : ReceiveHeartbeat(m)
  \/ \E m \in Models : Discover(m)
  \/ Advance
  \/ Cleanup
  \/ \E c \in Clients : Connect(c)
  \/ \E c \in Clients : SendEvent(c)

\* the monitor following NumModels workers for MaxTime minutes
SpecFleet == InitFleet /\ [][NextFleet]_vars

(* ------------------------------------------ InferenceService, llama.Model *)

\* the worker task followed through one request
OneWorker == {1}

\* the grammar references a request can carry
GrammarRefs ==
  {NoGrammar} \cup
  { [empty |-> FALSE, inline |-> i, parts |-> n, stored |-> st] :
      i \in BOOLEAN, n \in 1..3, st \in BOOLEAN }

\* ResolveGrammar: "" resolves to nothing, a reference holding "::=" is the
\* grammar itself, name and dir/name are looked up in the repository, any
\* other shape is an error, and so is a grammar the repository lacks
ResolveGrammar(ref) ==
  IF ref.empty THEN [grammar |-> "", err |-> FALSE]
  ELSE IF ref.inline THEN [grammar |-> "inline", err |-> FALSE]
  ELSE IF ref.parts > 2 THEN [grammar |-> "", err |-> TRUE]
  ELSE IF ~ref.stored THEN [grammar |-> "", err |-> TRUE]
  ELSE [grammar |-> "stored", err |-> FALSE]

\* mutant: a grammar that does not resolve fails the request
AfterResolveFailOnError(grammarErr) == IF grammarErr THEN "fail" ELSE "generate"

\* ProcessInference after ResolveGrammar: an error is logged ("Continue
\* without grammar"), and generation follows in every case
AfterResolve(grammarErr) == "generate"

\* The grammar ProcessInference hands to the model: none.  A reference that
\* resolved is logged and dropped too (the code that copied it into the
\* params is commented out).
GrammarUsed(resolved) == ""

\* the values of max_tokens a request can carry
MaxTokensValues ==
  {NoMaxTokens, [kind |-> "other", halves |-> 0]} \cup
  { [kind |-> "number", halves |-> h] : h \in (0 - 2 * MaxBudget)..(2 * MaxBudget) }

\* int(val) of a float64 kept in halves: truncation towards zero
Trunc(h) == IF h >= 0 THEN h \div 2 ELSE 0 - ((0 - h) \div 2)

\* getIntParam(params, "max_tokens", defaultVal): the number as an int, the
\* default for a missing key and for a value that is not a number
getIntParam(p, defaultVal) ==
  IF p.kind = "number" THEN Trunc(p.halves) ELSE defaultVal

\* getIntParam(params, "max_tokens", 512)
DefaultMaxTokens == 512

\* "Natural stopping when max_tokens not specified": maxTokens = 2048
NaturalStopTokens == 2048

\* GenerateWithFormatting: maxTokens as computed from the params
MaxTokens(p) ==
  IF p.kind = "absent" THEN NaturalStopTokens ELSE getIntParam(p, DefaultMaxTokens)

\* GenerateWithFormatting: is C.llama_predict reached?  result is
\* make([]byte, maxTokens * 4) and the call takes &result[0]: for
\* maxTokens <= 0 the make (negative length) or the index (length 0)
\* panics, the deferred recover() turns the panic into the error
\* "inference panic", and the model is not called.
ModelCalled(maxTokens) == maxTokens > 0

\* ProcessInference as the inference handler calls it: resolve the grammar,
\* generate, audit, build the response; the handler then serializes the
\* response (an InferenceResponse always serializes)
ProcessInference(w) ==
  /\ Running
  /\ pc[w] = "service"
  /\ inv[w].handler = "inference"
  /\ ~NilService(inv[w].handler)
  /\ LET g == ResolveGrammar(params.grammar)
         b == MaxTokens(params.maxTokens)
         generate == AfterResolve(g.err) = "generate"
     IN \E o \in Outcomes :
          /\ ~generate => o = "error"
          /\ (generate /\ ~ModelCalled(b)) => o # "ok"
          /\ gen' = [resolved |-> IF params.grammar.empty THEN "none"
                                  ELSE IF g.err THEN "failed" ELSE "ok",
                     invoked |-> generate,
                     called |-> generate /\ ModelCalled(b),
                     budget |-> b,
                     grammar |-> GrammarUsed(g.grammar)]
          /\ inv' = [inv EXCEPT ![w].outcome = o,
                                ![w].respError = ResponseError(o),
                                ![w].trace = inv[w].trace \o
                                   ServiceSteps(inv[w].handler, o, inv[w].msg)]
          /\ pc' = [pc EXCEPT ![w] = AfterMarshal(inv[w].req.replyTo)]
  /\ UNCHANGED params
  /\ UNCHANGED <<mode, subject, stream, payload, ackPending, deliveries,
                 pendingCount, activeCount, invocations, naks, published, crashed>>
  /\ UNCHANGED <<lifecycleVars, streamVars, monitorVars, healthVars, fleetVars, frontVars>>

\* a text worker on an inference subject, and a request with any params
InitInference ==
  /\ mode = "text"
  /\ subject = OtherSubject
  /\ QueueInit
  /\ LifecycleInit
  /\ StreamStarted
  /\ threshold = BackpressureThreshold
  /\ MonitorInit
  /\ HealthInit
  /\ FleetInit
  /\ params \in [grammar : GrammarRefs, maxTokens : MaxTokensValues]
  /\ gen = NoGen
  /\ FrontInit

NextInference ==
  \/ \E m \in OneMsg : PublishRequest(m)
  \/ \E m \in OneMsg : AckWaitExpire(m)
  \/ \E w \in OneWorker, m \in OneMsg : Fetch(w, m)
  \/ \E w \in OneWorker : IncrementPending(w)
  \/ \E w \in OneWorker : EnterHandler(w)
  \/ \E w \in OneWorker : ProcessInference(w)
  \/ \E w \in OneWorker : PublishResponse(w)
  \/ \E w \in OneWorker : AckMessage(w)
  \/ \E w \in OneWorker : ReturnFromHandler(w)
  \/ \E w \in OneWorker : DecrementPending(w)

\* one worker serving one text request
SpecInference == InitInference /\ [][NextInference]_vars

(* -------------------------------------------------- the HTTP server *)

Endpoints == {"completions", "embeddings", "transcriptions"}
Methods == {"GET", "POST"}
Bodies == {"wellformed", "malformed"}

\* how the service called by a handler ends: a response without an error,
\* or a response whose Error field is set together with a non-nil error
HandlerOutcomes == {"ok", "error"}

\* what a handler writes: the status, whether the service returned a
\* response for it, and whether the body carries an error
Answer(status, handled, error) ==
  [status |-> status, handled |-> handled, error |-> error]

\* InferenceHandler.handleCompletions
handleCompletions(method, body, outcome) ==
  IF method # "POST" THEN Answer(405, FALSE, TRUE)
  ELSE IF body = "malformed" THEN Answer(400, FALSE, TRUE)
  ELSE Answer(200, TRUE, outcome = "error")

\* EmbeddingHandler.handleEmbeddings
handleEmbeddings(method, body, outcome) ==
  IF method # "POST" THEN Answer(405, FALSE, TRUE)
  ELSE IF body = "malformed" THEN Answer(400, FALSE, TRUE)
  ELSE IF outcome = "error" THEN Answer(500, TRUE, TRUE)
  ELSE Answer(200, TRUE, FALSE)

\* AudioHandler.handleTranscriptions
handleTranscriptions(method, body, outcome) ==
  IF method # "POST" THEN Answer(405, FALSE, TRUE)
  ELSE IF body = "malformed" THEN Answer(400, FALSE, TRUE)
  ELSE IF outcome = "error" THEN Answer(500, TRUE, TRUE)
  ELSE Answer(200, TRUE, FALSE)

\* a client sends a request to one of the inference endpoints
HttpRequest(e, m, b) ==
  /\ httpReq = NoHttp \/ httpResp # NoAnswer
  /\ httpReq' = [endpoint |-> e, method |-> m, body |-> b]
  /\ httpResp' = NoAnswer
  /\ UNCHANGED <<grammarFile, grammarCall, creates>>
  /\ UNCHANGED <<backVars, harmonyVars, embeddingVars, arrival, clientVars>>

\* POST /v1/completions
HandleCompletions ==
  /\ httpReq.endpoint = "completions"
  /\ httpResp = NoAnswer
  /\ \E o \in HandlerOutcomes :
       httpResp' = handleCompletions(httpReq.method, httpReq.body, o)
  /\ UNCHANGED <<httpReq, grammarFile, grammarCall, creates>>
  /\ UNCHANGED <<backVars, harmonyVars, embeddingVars, arrival, clientVars>>

\* POST /v1/embeddings
HandleEmbeddings ==
  /\ httpReq.endpoint = "embeddings"
  /\ httpResp = NoAnswer
  /\ \E o \in HandlerOutcomes :
       httpResp' = handleEmbeddings(httpReq.method, httpReq.body, o)
  /\ UNCHANGED <<httpReq, grammarFile, grammarCall, creates>>
  /\ UNCHANGED <<backVars, harmonyVars, embeddingVars, arrival, clientVars>>

\* POST /v1/audio/transcriptions
HandleTranscriptions ==
  /\ httpReq.endpoint = "transcriptions"
  /\ httpResp = NoAnswer
  /\ \E o \in HandlerOutcomes :
       httpResp' = handleTranscriptions(httpReq.method, httpReq.body, o)
  /\ UNCHANGED <<httpReq, grammarFile, grammarCall, creates>>
  /\ UNCHANGED <<backVars, harmonyVars, embeddingVars, arrival, clientVars>>

\* GrammarHandler.createGrammar up to the repository: the body is decoded
\* and GrammarService.CreateGrammar validates the names and the syntax;
\* any failure is answered 400
CreateBegin(c, ok) ==
  /\ grammarCall[c].pc \in {"idle", "done"}
  /\ grammarCall' = [grammarCall EXCEPT ![c] =
       IF ok THEN [pc |-> "stat", body |-> c, status |-> 0]
       ELSE [pc |-> "done", body |-> c, status |-> 400]]
  /\ UNCHANGED <<httpReq, httpResp, grammarFile, creates>>
  /\ UNCHANGED <<backVars, harmonyVars, embeddingVars, arrival, clientVars>>

\* GrammarRepository.CreateGrammar: os.Stat(grammarPath); an existing file
\* is the error "already exists", which createGrammar answers 409
CreateStat(c) ==
  /\ grammarCall[c].pc = "stat"
  /\ grammarCall' = [grammarCall EXCEPT ![c] =
       IF grammarFile # NoFile
       THEN [@ EXCEPT !.pc = "done", !.status = 409]
       ELSE [@ EXCEPT !.pc = "write"]]
  /\ UNCHANGED <<httpReq, httpResp, grammarFile, creates>>
  /\ UNCHANGED <<backVars, harmonyVars, embeddingVars, arrival, clientVars>>

\* GrammarRepository.CreateGrammar: os.WriteFile(grammarPath, ...) creates
\* or truncates the file; createGrammar answers 201
CreateWrite(c) ==
  /\ grammarCall[c].pc = "write"
  /\ grammarFile' = grammarCall[c].body
  /\ grammarCall' = [grammarCall EXCEPT ![c] = [@ EXCEPT !.pc = "done", !.status = 201]]
  /\ creates' = creates + 1
  /\ UNCHANGED <<httpReq, httpResp>>
  /\ UNCHANGED <<backVars, harmonyVars, embeddingVars, arrival, clientVars>>

\* GrammarRepository.DeleteGrammar of the same (directory, name): a missing
\* file is the error "not found" (404), else os.Remove
DeleteGrammar ==
  /\ IF grammarFile = NoFile
     THEN UNCHANGED <<grammarFile, creates>>
     ELSE /\ grammarFile' = NoFile
          /\ creates' = 0
  /\ UNCHANGED <<httpReq, httpResp, grammarCall>>
  /\ UNCHANGED <<backVars, harmonyVars, embeddingVars, arrival, clientVars>>

\* every component as its constructor leaves it: no request, no response,
\* no call yet
InitFront ==
  /\ mode = "text"
  /\ subject = OtherSubject
  /\ QueueInit
  /\ LifecycleInit
  /\ StreamStarted
  /\ threshold = BackpressureThreshold
  /\ MonitorInit
  /\ OtherInit

NextHttp ==
  \/ \E e \in Endpoints, m \in Methods, b \in Bodies : HttpRequest(e, m, b)
  \/ HandleCompletions
  \/ HandleEmbeddings
  \/ HandleTranscriptions
  \/ \E c \in Callers, ok \in BOOLEAN : CreateBegin(c, ok)
  \/ \E c \in Callers : CreateStat(c)
  \/ \E c \in Callers : CreateWrite(c)
  \/ DeleteGrammar

\* the HTTP server answering inference requests while NumCallers callers
\* create and delete one grammar
SpecHttp == InitFront /\ [][NextHttp]_vars

(* ------------------------------------------------ the harmony format *)

\* a string is the sequence of its characters; in a response the special
\* tokens of the format are kept whole
FinalMark == "<|channel|>final<|message|>"
AnalysisMark == "<|channel|>analysis<|message|>"
EndMark == "<|end|>"

\* what a response is made of: the markers, white space, other text
Alphabet == {FinalMark, AnalysisMark, EndMark, " ", "a"}

RECURSIVE SeqsUpTo(_, _)
SeqsUpTo(S, n) ==
  IF n = 0 THEN {<<>>}
  ELSE LET shorter == SeqsUpTo(S, n - 1)
       IN  shorter \cup {Append(t, x) : t \in shorter, x \in S}

Responses == SeqsUpTo(Alphabet, MaxResponse)

\* strings.Index(s, sep) + 1 for a separator that begins with one of the
\* tokens in seps: the position of the first such token, 0 when Go yields -1
StringsIndex(s, seps) ==
  IF \E i \in 1..Len(s) : s[i] \in seps
  THEN CHOOSE i \in 1..Len(s) :
         s[i] \in seps /\ \A j \in 1..(i - 1) : s[j] \notin seps
  ELSE 0

\* strings.TrimSpace
TrimSpace(s) ==
  LET solid == {i \in 1..Len(s) : s[i] # " "}
  IN  IF solid = {} THEN <<>>
      ELSE LET first == CHOOSE i \in solid : \A j \in solid : i <= j
               last == CHOOSE i \in solid : \A j \in solid : j <= i
           IN  SubSeq(s, first, last)

\* response[start:] for s the position of the marker found
AfterMark(s, at) == SubSeq(s, at + 1, Len(s))

\* ParseAssistantResponse, the final channel: from the marker to the next
\* <|end|>, or to the end of the response, trimmed
FinalContent(resp) ==
  LET rest == AfterMark(resp, StringsIndex(resp, {FinalMark}))
      end == StringsIndex(rest, {EndMark})
  IN  TrimSpace(IF end = 0 THEN rest ELSE SubSeq(rest, 1, end - 1))

\* ParseAssistantResponse, the analysis channel: to the next <|end|>, else
\* to the next <|channel|>, else to the end of the response, trimmed
AnalysisContent(resp) ==
  LET rest == AfterMark(resp, StringsIndex(resp, {AnalysisMark}))
      end == StringsIndex(rest, {EndMark})
      nextChannel == StringsIndex(rest, {FinalMark, AnalysisMark})
  IN  TrimSpace(IF end # 0 THEN SubSeq(rest, 1, end - 1)
                ELSE IF nextChannel # 0 THEN SubSeq(rest, 1, nextChannel - 1)
                ELSE rest)

\* HarmonyFormatter.ParseAssistantResponse
ParseAssistantResponse(resp) ==
  LET hasFinal == StringsIndex(resp, {FinalMark}) # 0
      hasAnalysis == StringsIndex(resp, {AnalysisMark}) # 0
      final == IF hasFinal THEN FinalContent(resp) ELSE <<>>
      analysis == IF hasAnalysis THEN AnalysisContent(resp) ELSE <<>>
      afterFinal == final
      afterAnalysis == IF hasAnalysis /\ afterFinal = <<>> THEN analysis ELSE afterFinal
  IN  [hasFinal |-> hasFinal, final |-> final,
       hasAnalysis |-> hasAnalysis, analysis |-> analysis,
       FinalResponse |-> IF afterAnalysis = <<>> THEN resp ELSE afterAnalysis]

\* ExtractFinalResponse: the text handed on as the answer
ExtractFinalResponse(resp) ==
  LET p == ParseAssistantResponse(resp)
  IN  IF p.FinalResponse # <<>> THEN p.FinalResponse
      ELSE IF p.hasFinal /\ p.final # <<>> THEN p.final
      ELSE resp

\* the letters strings.ToLower changes
UpperCase ==
  <<"A", "B", "C", "D", "E", "F", "G", "H", "I", "J", "K", "L", "M", "N",
    "O", "P", "Q", "R", "S", "T", "U", "V", "W", "X", "Y", "Z">>

LowerCase ==
  <<"a", "b", "c", "d", "e", "f", "g", "h", "i", "j", "k", "l", "m", "n",
    "o", "p", "q", "r", "s", "t", "u", "v", "w", "x", "y", "z">>

\* strings.ToLower
ToLower(s) ==
  [i \in 1..Len(s) |->
     IF \E k \in 1..Len(UpperCase) : UpperCase[k] = s[i]
     THEN LowerCase[CHOOSE k \in 1..Len(UpperCase) : UpperCase[k] = s[i]]
     ELSE s[i]]

\* strings.Contains
StringsContains(s, substr) ==
  \E i \in 0..(Len(s) - Len(substr)) :
    \A j \in 1..Len(substr) : s[i + j] = substr[j]

\* DetermineReasoningLevel: highReasoningKeywords
highReasoningKeywords == <<
  <<"e", "x", "p", "l", "a", "i", "n">>,
  <<"a", "n", "a", "l", "y", "z", "e">>,
  <<"c", "o", "m", "p", "a", "r", "e">>,
  <<"e", "v", "a", "l", "u", "a", "t", "e">>,
  <<"d", "e", "t", "a", "i", "l", "e", "d">>,
  <<"c", "o", "m", "p", "r", "e", "h", "e", "n", "s", "i", "v", "e">>,
  <<"s", "t", "e", "p", " ", "b", "y", " ", "s", "t", "e", "p">>,
  <<"r", "e", "a", "s", "o", "n", "i", "n", "g">>,
  <<"l", "o", "g", "i", "c">>,
  <<"p", "r", "o", "o", "f">>,
  <<"a", "l", "g", "o", "r", "i", "t", "h", "m">>,
  <<"s", "t", "r", "a", "t", "e", "g", "y">>,
  <<"c", "o", "m", "p", "l", "e", "x">>,
  <<"i", "n", "t", "r", "i", "c", "a", "t", "e">>,
  <<"s", "o", "p", "h", "i", "s", "t", "i", "c", "a", "t", "e", "d">>,
  <<"e", "l", "a", "b", "o", "r", "a", "t", "e">>,
  <<"t", "h", "o", "r", "o", "u", "g", "h">>>>

\* DetermineReasoningLevel: lowReasoningKeywords
lowReasoningKeywords == <<
  <<"h", "e", "l", "l", "o">>,
  <<"h", "i">>,
  <<"t", "h", "a", "n", "k", "s">>,
  <<"t", "h", "a", "n", "k", " ", "y", "o", "u">>,
  <<"y", "e", "s">>,
  <<"n", "o">>,
  <<"o", "k">>,
  <<"o", "k", "a", "y">>,
  <<"s", "i", "m", "p", "l", "e">>,
  <<"q", "u", "i", "c", "k">>,
  <<"b", "r", "i", "e", "f">>,
  <<"s", "h", "o", "r", "t">>,
  <<"w", "h", "a", "t", " ", "i", "s">>,
  <<"w", "h", "o", " ", "i", "s">>>>

\* DetermineReasoningLevel
DetermineReasoningLevel(in) ==
  LET lowered == ToLower(in)
  IN  IF \E k \in 1..Len(highReasoningKeywords) :
           StringsContains(lowered, highReasoningKeywords[k])
      THEN "high"
      ELSE IF \E k \in 1..Len(lowReasoningKeywords) :
                StringsContains(lowered, lowReasoningKeywords[k])
      THEN "low"
      ELSE "medium"

InputHello ==
  <<"h", "e", "l", "l", "o">>

InputExplain ==
  <<"e", "x", "p", "l", "a", "i", "n", " ", "q", "u", "a", "n", "t", "u",
    "m", " ", "p", "h", "y", "s", "i", "c", "s", " ", "i", "n", " ", "d",
    "e", "t", "a", "i", "l">>

InputWhatIsAI ==
  <<"w", "h", "a", "t", " ", "i", "s", " ", "A", "I", "?">>

InputCalculate ==
  <<"c", "a", "l", "c", "u", "l", "a", "t", "e", " ", "2", "+", "2">>

InputAnalyze ==
  <<"a", "n", "a", "l", "y", "z", "e", " ", "a", "n", "d", " ", "c", "o",
    "m", "p", "a", "r", "e", " ", "m", "a", "c", "h", "i", "n", "e", " ",
    "l", "e", "a", "r", "n", "i", "n", "g", " ", "a", "l", "g", "o", "r",
    "i", "t", "h", "m", "s">>

InputShout ==
  <<"E", "X", "P", "L", "A", "I", "N">>

InputJoke ==
  <<"t", "e", "l", "l", " ", "m", "e", " ", "a", " ", "j", "o", "k", "e">>

InputSum ==
  <<"s", "u", "m", " ", "1", " ", "a", "n", "d", " ", "2">>

\* the inputs the level is determined for
Inputs == {InputHello, InputExplain, InputWhatIsAI, InputCalculate, InputAnalyze, InputShout, InputJoke, InputSum}

\* the model produced a response
Generate(r) ==
  /\ response = <<>>
  /\ r # <<>>
  /\ response' = r
  /\ UNCHANGED <<parsed, input, level>>
  /\ UNCHANGED <<backVars, httpVars, embeddingVars, arrival, clientVars>>

\* HarmonyFormatter.ParseResponse with extract_final: the response is
\* parsed and the final response extracted
Parse ==
  /\ response # <<>>
  /\ ~parsed.done
  /\ parsed' = LET p == ParseAssistantResponse(response)
                IN  [done |-> TRUE, hasFinal |-> p.hasFinal, final |-> p.final,
                     hasAnalysis |-> p.hasAnalysis, analysis |-> p.analysis,
                     FinalResponse |-> p.FinalResponse,
                     returned |-> ExtractFinalResponse(response)]
  /\ UNCHANGED <<response, input, level>>
  /\ UNCHANGED <<backVars, httpVars, embeddingVars, arrival, clientVars>>

\* a user input arrives to be formatted
Ask(in) ==
  /\ input = <<>>
  /\ input' = in
  /\ UNCHANGED <<response, parsed, level>>
  /\ UNCHANGED <<backVars, httpVars, embeddingVars, arrival, clientVars>>

\* FormatPromptForGPTOSS: the reasoning level of the prompt
Determine ==
  /\ input # <<>>
  /\ level = NoLevel
  /\ level' = DetermineReasoningLevel(input)
  /\ UNCHANGED <<response, parsed, input>>
  /\ UNCHANGED <<backVars, httpVars, embeddingVars, arrival, clientVars>>

NextHarmony ==
  \/ \E r \in Responses : Generate(r)
  \/ Parse
  \/ \E in \in Inputs : Ask(in)
  \/ Determine

\* one prompt formatted and one response parsed, for every response of up
\* to MaxResponse tokens
SpecHarmony == InitFront /\ [][NextHarmony]_vars

(* ------------------------------- NATSService.processEmbeddingMessage *)

\* a worker task got an embedding message that parses
EmbeddingMessage(t) ==
  /\ embPc[t] \in {"idle", "done"}
  /\ embPc' = [embPc EXCEPT ![t] = "check"]
  /\ UNCHANGED <<embeddingService, embUsed, constructed>>
  /\ UNCHANGED <<backVars, httpVars, harmonyVars, arrival, clientVars>>

\* if s.embeddingService == nil: the field is read without a lock
CheckService(t) ==
  /\ embPc[t] = "check"
  /\ embPc' = [embPc EXCEPT ![t] =
       IF embeddingService = NilInstance THEN "construct" ELSE "call"]
  /\ UNCHANGED <<embeddingService, embUsed, constructed>>
  /\ UNCHANGED <<backVars, httpVars, harmonyVars, arrival, clientVars>>

\* s.embeddingService = NewEmbeddingService(...): a new instance is built
\* and the field is written without a lock
ConstructService(t) ==
  /\ embPc[t] = "construct"
  /\ constructed' = constructed + 1
  /\ embeddingService' = constructed + 1
  /\ embPc' = [embPc EXCEPT ![t] = "call"]
  /\ UNCHANGED embUsed
  /\ UNCHANGED <<backVars, httpVars, harmonyVars, arrival, clientVars>>

\* s.embeddingService.ProcessEmbedding(...): the field is read again and
\* the call runs on the instance found there
CallEmbedding(t) ==
  /\ embPc[t] = "call"
  /\ embUsed' = [embUsed EXCEPT ![t] = embeddingService]
  /\ embPc' = [embPc EXCEPT ![t] = "done"]
  /\ UNCHANGED <<embeddingService, constructed>>
  /\ UNCHANGED <<backVars, httpVars, harmonyVars, arrival, clientVars>>

NextEmbedding ==
  \/ \E t \in Tasks : EmbeddingMessage(t)
  \/ \E t \in Tasks : CheckService(t)
  \/ \E t \in Tasks : ConstructService(t)
  \/ \E t \in Tasks : CallEmbedding(t)

\* NumTasks worker tasks of one process handling embedding messages
SpecEmbedding == InitFront /\ [][NextEmbedding]_vars

(* ------------------------- the heartbeat callback beside the cleanup *)

\* the subscription callback up to m.mu.Lock(): the heartbeat is parsed and
\* now := time.Now() is read, before the lock is taken.  The callbacks of
\* one subscription run one after the other.
HeartbeatArrives(m) ==
  /\ arrival.pc # "stamped"
  /\ arrival' = [pc |-> "stamped", model |-> m, at |-> now, wasOffline |-> FALSE]
  /\ UNCHANGED fleetVars
  /\ UNCHANGED <<queueVars, pendingCount, activeCount, lifecycleVars, streamVars,
                 monitorVars, healthVars, inferenceVars>>
  /\ UNCHANGED <<httpVars, harmonyVars, embeddingVars, clientVars>>

\* the callback from m.mu.Lock() on: the record is replaced under the
\* lock with LastSeen = the time read before, then notifyListeners
HeartbeatLocked ==
  /\ arrival.pc = "stamped"
  /\ services' = HeartbeatApplied(services, arrival.model, arrival.at)
  /\ arrival' = [arrival EXCEPT !.pc = "applied",
                                !.wasOffline = services[arrival.model].status = "offline"]
  /\ NotifyReady
  /\ chanLen' = notifyListeners
  /\ fleetOp' = Op("heartbeat", TRUE)
  /\ UNCHANGED <<now, cleanupC, listeners>>
  /\ UNCHANGED <<queueVars, pendingCount, activeCount, lifecycleVars, streamVars,
                 monitorVars, healthVars, inferenceVars>>
  /\ UNCHANGED <<httpVars, harmonyVars, embeddingVars, clientVars>>

NextFleetRace ==
  \/ \E m \in Models : HeartbeatArrives(m)
  \/ HeartbeatLocked
  \/ \E m \in Models : Discover(m)
  \/ Advance
  \/ Cleanup

\* the monitor with the heartbeat callback in its two halves, so that a
\* cleanup pass can run between the reading of the clock and the lock
SpecFleetRace == InitFleet /\ [][NextFleetRace]_vars

(* -------------------------------------- NATSInferenceClient.sendRequest *)

\* mutant: the timer of the select has fired from the start
TimerFiredAtOnce(t) == TRUE

\* <-time.After(c.timeout) is ready
TimerFired(t) == t >= ClientTimeout

\* the cases of the select of sendRequest that are ready; Go takes any one
\* of them
SelectReady ==
  (IF replyChan # <<>> THEN {"reply"} ELSE {}) \cup
  (IF TimerFired(elapsed) THEN {"timeout"} ELSE {}) \cup
  (IF callCtx = "cancelled" THEN {"cancelled"} ELSE {})

\* what sendRequest returns for the select case taken: the reply parsed
\* (or the error of json.Unmarshal), the timeout error, ctx.Err()
Returns(case) ==
  IF case = "reply"
    THEN [pc |-> "returned", sent |-> TRUE,
          result |-> IF Head(replyChan).valid THEN "reply" ELSE "parseErr",
          replyNo |-> Head(replyChan).no]
    ELSE [pc |-> "returned", sent |-> TRUE, result |-> case, replyNo |-> 0]

clientOthers == <<backVars, httpVars, harmonyVars, embeddingVars, arrival>>

\* sendRequest up to the publish: c.conn.Subscribe(replySubject, ...) with
\* the deferred Unsubscribe; on a closed connection it fails and the call
\* returns
ClientSubscribe ==
  /\ call.pc = "idle"
  /\ IF clientConn = "open"
       THEN /\ replySub' = TRUE
            /\ call' = [call EXCEPT !.pc = "subscribed"]
       ELSE /\ call' = [call EXCEPT !.pc = "returned", !.result = "subscribeErr"]
            /\ UNCHANGED replySub
  /\ UNCHANGED <<clientConn, callCtx, replyChan, replies, elapsed, lost>>
  /\ UNCHANGED clientOthers

\* c.conn.Publish(topic, requestBytes); on failure the call returns and
\* the deferred Unsubscribe runs
ClientPublish ==
  /\ call.pc = "subscribed"
  /\ IF clientConn = "open"
       THEN /\ call' = [call EXCEPT !.pc = "select", !.sent = TRUE]
            /\ UNCHANGED replySub
       ELSE /\ call' = [call EXCEPT !.pc = "returned", !.result = "publishErr"]
            /\ replySub' = FALSE
  /\ UNCHANGED <<clientConn, callCtx, replyChan, replies, elapsed, lost>>
  /\ UNCHANGED clientOthers

\* A response is published to the reply subject of the request that was
\* sent.  With a subscription and an open connection the callback puts it
\* in replyChan (and stays blocked on a full channel); without a
\* subscription nobody receives it.
WorkerReply(valid) ==
  /\ call.sent
  /\ replies < MaxReplies
  /\ replies' = replies + 1
  /\ IF replySub /\ clientConn = "open"
       THEN /\ replyChan' = IF Len(replyChan) < ReplyChanCap
                              THEN Append(replyChan, [no |-> replies + 1, valid |-> valid])
                              ELSE replyChan
            /\ UNCHANGED lost
       ELSE /\ lost' = IF call.pc # "returned" /\ clientConn = "open"
                         THEN lost + 1 ELSE lost
            /\ UNCHANGED replyChan
  /\ UNCHANGED <<call, clientConn, callCtx, replySub, elapsed>>
  /\ UNCHANGED clientOthers

\* a second passes while the call waits in its select
ClientTick ==
  /\ call.pc = "select"
  /\ elapsed < ClientTimeout
  /\ elapsed' = elapsed + 1
  /\ UNCHANGED <<call, clientConn, callCtx, replySub, replyChan, replies, lost>>
  /\ UNCHANGED clientOthers

\* the caller cancels ctx
CancelCall ==
  /\ callCtx = "live"
  /\ call.pc # "returned"
  /\ callCtx' = "cancelled"
  /\ UNCHANGED <<call, clientConn, replySub, replyChan, replies, elapsed, lost>>
  /\ UNCHANGED clientOthers

\* the client's connection is closed (Close, or lost for good)
ClientConnClosed ==
  /\ clientConn = "open"
  /\ call.pc # "returned"
  /\ clientConn' = "closed"
  /\ UNCHANGED <<call, callCtx, replySub, replyChan, replies, elapsed, lost>>
  /\ UNCHANGED clientOthers

\* the select of sendRequest takes a ready case and the call returns; the
\* deferred sub.Unsubscribe() runs
SelectReturn(case) ==
  /\ call.pc = "select"
  /\ case \in SelectReady
  /\ call' = Returns(case)
  /\ replySub' = FALSE
  /\ UNCHANGED <<clientConn, callCtx, replyChan, replies, elapsed, lost>>
  /\ UNCHANGED clientOthers

NextClient ==
  \/ ClientSubscribe
  \/ ClientPublish
  \/ \E valid \in BOOLEAN : WorkerReply(valid)
  \/ ClientTick
  \/ CancelCall
  \/ ClientConnClosed
  \/ \E case \in {"reply", "timeout", "cancelled"} : SelectReturn(case)

\* one call of sendRequest, the responses to it, its clock and its context
SpecClient == InitFront /\ [][NextClient]_vars

(* ---------------------------------------------------------------- routing *)

InitRouting ==
  /\ mode \in {"text", "audio"}
  /\ subject \in AllSubjects
  /\ QueueInit
  /\ LifecycleInit
  /\ StreamStarted
  /\ threshold = BackpressureThreshold
  /\ MonitorInit
  /\ OtherInit

NextRouting ==
  \/ \E m \in OneMsg : PublishRequest(m)
  \/ \E w \in OneWorker, m \in OneMsg : Fetch(w, m)
  \/ \E w \in OneWorker : IncrementPending(w)
  \/ \E w \in OneWorker : EnterHandler(w)

\* one worker dispatching one request, for every subject the consumer can
\* be configured with
SpecRouting == InitRouting /\ [][NextRouting]_vars

(* ------------------------------------------------------------------ *)
(* Properties                                                         *)
(* ------------------------------------------------------------------ *)

\* the handler of worker w has returned (its invocation record is complete)
Returned(w) == pc[w] \in {"return", "dispatched"}

\* worker w is inside processMessage or has left it by return or panic
Entered(w) == pc[w] \in {"service", "publish", "ack", "return", "dispatched", "panicked"}

Ops(w, op) == Count(inv[w].trace, op)

\* positions of the steps named op in the trace of worker w
Pos(w, op) == { i \in 1..Len(inv[w].trace) : inv[w].trace[i].op = op }

\* C1 (as stated): every request is handed to exactly one handler
\* invocation: no message is processed by two invocations, at the same time
\* or one after the other.
C1_OneInvocationPerMessage == \A m \in MsgIds : invocations[m] <= 1

\* C1 (amended): every delivery of a request is handed to exactly one
\* handler invocation, no two worker tasks hold the same delivery, and an
\* invocation positively acknowledges its delivery at most once; a message
\* may be delivered again, and so handled by one more invocation per
\* delivery.
C1_OneInvocationPerDelivery ==
  /\ \A w \in Workers :
       /\ inv[w].entered <= 1
       /\ Entered(w) => inv[w].entered = 1
       /\ Ops(w, "ack") <= 1
       /\ Ops(w, "ack") + Ops(w, "nak") <= 1
  /\ \A w, v \in Workers :
       (w # v /\ inv[w].msg # NoMsg /\ inv[w].msg = inv[v].msg)
         => inv[w].dseq # inv[v].dseq
  /\ \A m \in MsgIds : invocations[m] <= deliveries[m]

\* C1 witness: a redelivered message was handled and acknowledged by the
\* invocation of its second delivery
C1_Witness ==
  \E w \in Workers :
    /\ pc[w] = "dispatched"
    /\ inv[w].dseq = 2
    /\ inv[w].entered = 1
    /\ Ops(w, "ack") = 1
    /\ invocations[inv[w].msg] = 2

\* C2: 0 <= active <= pending <= W + fetch batch in every state; pending
\* counts exactly the workers between IncrementPending and
\* DecrementPending, active exactly those between handler entry and exit.
C2_CounterBounds ==
  /\ 0 <= activeCount
  /\ activeCount <= pendingCount
  /\ pendingCount <= Concurrency + FetchBatch
  /\ pendingCount =
       Cardinality({ w \in Workers :
         pc[w] \in {"dispatch", "service", "publish", "ack", "return",
                    "dispatched", "panicked"} })
  /\ activeCount =
       Cardinality({ w \in Workers :
         pc[w] \in {"service", "publish", "ack", "return"} })

\* C2 witness: every worker is inside a handler
C2_Witness == pendingCount = Concurrency /\ activeCount = Concurrency

\* C3: for a request carrying a reply_to, at most one response is ever
\* published on its reply subject, over all workers and deliveries.
C3_AtMostOnePublish ==
  \A m \in MsgIds : payload[m].replyTo # NoReply => published[m] <= 1

\* C4: once a message has been negatively acknowledged MaxDeliver times it
\* is never delivered again.
C4_RedeliveryBounded ==
  [][\A m \in MsgIds :
       naks[m] >= MaxDeliver => deliveries'[m] = deliveries[m]]_vars

\* C5: an invocation whose payload does not parse negatively acknowledges
\* exactly once and returns: no service call, no audit entry, no publish
\* and no positive acknowledgement; nothing is ever published for it.
C5_ParseFailureNaks ==
  /\ \A w \in Workers :
       (Entered(w) /\ ~Req(w).parses) =>
         /\ Returned(w)
         /\ inv[w].trace = <<Ev("nak", "", inv[w].msg, "ok")>>
  /\ \A m \in MsgIds :
       (stream[m] # "unpublished" /\ ~payload[m].parses) => published[m] = 0

\* C5 witness: a handler returned after rejecting a payload
C5_Witness ==
  \E w \in Workers :
    pc[w] = "return" /\ ~Req(w).parses /\ Ops(w, "nak") = 1

\* the service was called and returned an error to the handler
ServiceFailed(w) ==
  \E i \in Pos(w, "svc") : inv[w].trace[i].res \in {"error", "panic"}

\* C6: when the service returned an error for a parsed request, the
\* response carries the error, it is published to reply_to if there is
\* one, and the message is positively, not negatively, acknowledged.
C6_ServiceErrorAcked ==
  \A w \in Workers :
    (Returned(w) /\ ServiceFailed(w)) =>
      /\ inv[w].respError
      /\ Ops(w, "pub") = (IF inv[w].req.replyTo # NoReply THEN 1 ELSE 0)
      /\ \A i \in Pos(w, "pub") : inv[w].trace[i].arg = inv[w].req.replyTo
      /\ Ops(w, "ack") = 1
      /\ Ops(w, "nak") = 0

\* C6 witness: an error response was published and the message acknowledged
C6_Witness ==
  \E w \in Workers :
    /\ Returned(w) /\ ServiceFailed(w)
    /\ Ops(w, "pub") = 1 /\ Ops(w, "ack") = 1

\* the publish of the response failed
PublishFailed(w) ==
  \E i \in Pos(w, "pub") : inv[w].trace[i].res = "failed"

\* C7: a failed publish does not change the acknowledgement: the message
\* is positively acknowledged as after a successful publish, and the
\* publish is not retried.
C7_PublishFailureStillAcks ==
  \A w \in Workers :
    /\ Ops(w, "pub") <= 1
    /\ (Returned(w) /\ PublishFailed(w)) =>
         /\ Ops(w, "ack") = 1
         /\ Ops(w, "nak") = 0
         /\ \A i \in Pos(w, "pub"), j \in Pos(w, "ack") : i < j

\* C7 witness: a handler returned after a failed publish
C7_Witness == \E w \in Workers : Returned(w) /\ PublishFailed(w)

\* C8: within an invocation the service call precedes the publish and the
\* publish precedes the positive acknowledgement; with a reply_to, there
\* is no acknowledgement before the publish call.
C8_ProtocolOrder ==
  \A w \in Workers :
    /\ \A i \in Pos(w, "svc"), j \in Pos(w, "pub") \cup Pos(w, "ack") : i < j
    /\ \A i \in Pos(w, "pub"), j \in Pos(w, "ack") : i < j
    /\ Ops(w, "pub") + Ops(w, "ack") > 0 => Ops(w, "svc") = 1
    /\ (Ops(w, "ack") > 0 /\ inv[w].req.replyTo # NoReply) => Ops(w, "pub") = 1

\* C8 witness: service call, publish and acknowledgement all happened
C8_Witness ==
  \E w \in Workers :
    Ops(w, "svc") = 1 /\ Ops(w, "pub") = 1 /\ Ops(w, "ack") = 1

\* main wired the service that the subject's handler uses
Wired == ~ServiceMissing(Route(subject)) /\ ~NilService(Route(subject))

\* the handler called its service and serialized the response
Served(w) == Ops(w, "svc") = 1 /\ Ops(w, "nak") = 0

\* C9: for a parsed request without reply_to the response is computed and
\* audited and the message acknowledged, and nothing is published (in a
\* worker whose handler has its service, for a response that serialized).
C9_NoReplyAuditedNotPublished ==
  \A w \in Workers :
    (Wired /\ Returned(w) /\ inv[w].req.parses /\ inv[w].req.replyTo = NoReply
       /\ Served(w)) =>
      /\ Ops(w, "audit") = 1
      /\ Ops(w, "ack") = 1
      /\ Ops(w, "pub") = 0
      /\ \A i \in Pos(w, "pub") : inv[w].trace[i].arg # MsgReply(inv[w].msg)

\* C10: every invocation for a parsed message writes exactly one audit
\* entry with the message's req_id, when the handler succeeds, returns an
\* error or panics (in a worker whose handler has its service).
C10_OneAuditPerInvocation ==
  \A w \in Workers :
    (Wired /\ (Returned(w) \/ pc[w] = "panicked") /\ inv[w].req.parses) =>
      /\ Ops(w, "audit") = 1
      /\ \A i \in Pos(w, "audit") : inv[w].trace[i].id = inv[w].msg

\* no message is outstanding: every worker task is between two messages
\* (polling, backing off, or stopped)
NoOutstanding == \A w \in Workers : pc[w] \in {"fetch", "backoff", "stopped"}

\* C11: whenever no message is outstanding (the dispatch of every fetched
\* message has returned, after success, handler error or NAK),
\* pending = 0 and active = 0.
C11_CountersReturnToZero ==
  NoOutstanding => (pendingCount = 0 /\ activeCount = 0)

\* C11 witness: the pool is idle again after one message was NAKed and one
\* was acknowledged and removed
C11_Witness ==
  /\ NoOutstanding
  /\ \E m \in MsgIds : naks[m] > 0
  /\ \E m \in MsgIds : stream[m] = "removed"

\* C12: active is not incremented for a message whose payload fails to
\* parse: while every message being handled is one that does not parse,
\* active = 0.
C12_ActiveOnlyAfterParse ==
  (\A w \in Workers : inv[w].msg # NoMsg => ~Req(w).parses) => activeCount = 0

\* the worker tasks that are inside a handler invocation
InHandler == { w \in Workers : pc[w] \in {"service", "publish", "ack", "return"} }

\* C13: shutdown never cuts a handler invocation short: when the process
\* is gone after the context was cancelled, no worker task is inside a
\* handler invocation it had started.
C13_HandlerCompletesOnShutdown ==
  (exited /\ ctx = "cancelled") => InHandler = {}

\* C14: a fatal bus error (the connection is closed) ends the worker task:
\* a worker that got such an error from Fetch does not poll again.
C14_FatalErrorStopsWorker ==
  [][\A w \in Workers :
       (pc[w] = "backoff" /\ lastErr[w] = "closed")
         => pc'[w] \in {"backoff", "stopped"}]_vars

\* the model call of the invocation of worker w panicked
ServicePanicked(w) ==
  \E i \in Pos(w, "svc") : inv[w].trace[i].res = "panic"

\* C15: a panic inside any service is caught: an audit entry with status
\* panic is written, the response carries the error, and the process
\* goes on (in a worker whose handler has its service).
C15_PanicCaught ==
  \A w \in Workers :
    (Wired /\ ServicePanicked(w)) =>
      /\ ~crashed
      /\ pc[w] # "panicked"
      /\ \E i \in Pos(w, "audit") : inv[w].trace[i].arg = "panic"
      /\ inv[w].respError

\* the marker word.request occurs in the subject
HasMarker(s, word) ==
  \E i \in 1..Len(s), j \in 1..Len(s) :
    j = i + 2 /\ SubSeq(s, i, j) = <<word, ".", "request">>

\* C16: the handler is the one of the first of the markers
\* embedding.request, audio.request, transcribe.request (in this order)
\* that occurs in the subject: embedding for the first, transcription for
\* the other two, text generation when none occurs.
C16_RoutingByMarker ==
  \A w \in Workers :
    inv[w].handler # "none" =>
      inv[w].handler =
        (CASE HasMarker(subject, "embedding") -> "embedding"
           [] ~HasMarker(subject, "embedding") /\ HasMarker(subject, "audio") -> "audio"
           [] ~HasMarker(subject, "embedding") /\ ~HasMarker(subject, "audio")
                /\ HasMarker(subject, "transcribe") -> "audio"
           [] OTHER -> "inference")

\* C16 witness: a subject carrying an audio marker before an embedding
\* marker was dispatched to the embedding handler
C16_Witness ==
  \E w \in Workers :
    /\ inv[w].handler = "embedding"
    /\ SubSeq(subject, 1, 3) = <<"audio", ".", "request">>
    /\ HasMarker(subject, "embedding")

\* C17: ensuring the stream only adds: no step of any process's startup
\* removes a subject from the stream or the stream itself, and a process
\* that completes its startup leaves its own subject in the stream.
C17_SubjectsOnlyAdded ==
  [][/\ streamSubjects \subseteq streamSubjects'
     /\ streamExists => streamExists'
     /\ \A p \in Starters :
          (startPc[p] # "started" /\ startPc'[p] = "started")
            => StartSubject(p) \in streamSubjects']_vars

TickTaken ==
  \/ currentTicker = "high" /\ highC /\ ~highC'
  \/ currentTicker = "low" /\ lowC /\ ~lowC'

\* C20: the period in force after a sample is 1 s if the sample saw
\* pending > 0 and 10 s if it saw pending = 0, whatever the period was
\* before, and every tick hands a report of that sample to Publish.
C20_AdaptiveCadence ==
  [][TickTaken =>
       /\ Period(currentTicker') = (IF pendingCount > 0 THEN 1 ELSE 10)
       /\ report'.pending = pendingCount
       /\ report'.active = activeCount
       /\ report'.status # "none"]_vars

\* C20 witness: one busy sample switched the monitor to the 1 s ticker,
\* and the pool has gone idle since
C20_Witness ==
  /\ currentTicker = "high"
  /\ report.pending > 0
  /\ pendingCount = 0

\* C21 (as stated): in every health snapshot the level is healthy when
\* pending < T, warning when T <= pending < 2T and critical when
\* pending >= 2T, T being the configured threshold, and utilization equals
\* pending / capacity.
C21_SnapshotLevel ==
  lastSnapshot # NoSnapshot =>
    LET s == lastSnapshot
        T == threshold
    IN /\ s.pending < T => s.level = "healthy"
       /\ (T <= s.pending /\ s.pending < 2 * T) => s.level = "warning"
       /\ s.pending >= 2 * T => s.level = "critical"
       /\ s.capacity # 0
       /\ s.utilization[1] * s.capacity = s.pending * s.utilization[2]

\* C21 (amended): the same with T the configured threshold, or 5 when the
\* configured threshold is 0, and utilization equal to pending / capacity
\* when capacity > 0 and to 0 otherwise.
C21_SnapshotLevelDefaulted ==
  lastSnapshot # NoSnapshot =>
    LET s == lastSnapshot
        T == IF threshold = 0 THEN 5 ELSE threshold
    IN /\ s.pending < T => s.level = "healthy"
       /\ (T <= s.pending /\ s.pending < 2 * T) => s.level = "warning"
       /\ s.pending >= 2 * T => s.level = "critical"
       /\ s.capacity = maxMsgs
       /\ IF s.capacity > 0
            THEN s.utilization[1] * s.capacity = s.pending * s.utilization[2]
            ELSE s.utilization[1] = 0

\* C21 witness: a snapshot of 5 pending messages taken under a configured
\* threshold of 0 and an unlimited stream: a warning with utilization 0
C21_Witness ==
  /\ threshold = 0
  /\ maxMsgs = 0 - 1
  /\ lastSnapshot.pending = 5
  /\ lastSnapshot.level = "warning"
  /\ lastSnapshot.utilization[1] = 0

\* C22: while the context is live the heartbeat loop is never left, whatever
\* the load and however a tick ended; every tick taken ends published,
\* failed or recovered, a tick that did not panic built its snapshot from
\* the counters of that moment, and a buffered tick can always be taken.
C22_HeartbeatEveryTick ==
  [][/\ (hbC /\ ~hbC') =>
          /\ lastBeat'.outcome \in BeatOutcomes
          /\ lastBeat'.outcome # "panicked" => lastSnapshot' = getHealthStatus
          /\ lastBeat'.outcome = "published" => conn = "open"
     /\ (healthPc = "loop" /\ ctx = "live") => healthPc' = "loop"
     /\ (Running /\ healthPc = "loop" /\ hbC) => ENABLED Heartbeat]_vars

\* C22 witness: under load, the tick after a panicked tick published a
\* snapshot of the current counters
C22_Witness ==
  /\ lastBeat.prev = "panicked"
  /\ lastBeat.outcome = "published"
  /\ pendingCount > 0
  /\ lastSnapshot.pending = pendingCount

\* the lifecycle state of the health publisher
HealthState ==
  IF healthPc \in {"subscribe", "failed"} THEN "starting"
  ELSE IF healthPc = "loop" THEN "online"
  ELSE "stopping"

HealthRank(st) == IF st = "starting" THEN 0 ELSE IF st = "online" THEN 1 ELSE 2

\* C23: the publisher's state only moves forward, and outside online no
\* heartbeat tick is taken and no health request is answered.
C23_HealthLifecycle ==
  [][/\ HealthRank(HealthState') >= HealthRank(HealthState)
     /\ HealthState # "online" =>
          /\ ~(hbC /\ ~hbC')
          /\ \A r \in Requesters :
               ~(hreq[r] = "sent" /\ hreq'[r] = "answered")]_vars

\* C24: a health request the handler has dealt with has been answered to
\* its requester, unless the connection is gone.
C24_HealthRequestAnswered ==
  \A r \in Requesters :
    hreq[r] \in {"noreply", "failed"} => conn = "closed"

\* C25: first_seen of a record never moves to a later time, whatever
\* arrives: heartbeats and discovery results in any order.
C25_FirstSeenNonIncreasing ==
  [][\A m \in Models :
       (services[m] # NoRecord /\ services'[m] # NoRecord)
         => services'[m].firstSeen <= services[m].firstSeen]_vars

\* C25 witness: a discovery result arrived for a record that heartbeats
\* had created earlier and refreshed since, and left it alone
C25_Witness ==
  /\ fleetOp.op = "discover"
  /\ ~fleetOp.changed
  /\ \E m \in Models :
       /\ services[m] # NoRecord
       /\ services[m].firstSeen < services[m].lastSeen
       /\ services[m].lastSeen < now

\* C26: no record is offline while its last heartbeat is at most 2 minutes
\* old, and a cleanup pass leaves every record whose last heartbeat is
\* older than 2 minutes offline.
C26_OfflineAfterTwoMinutes ==
  [][/\ \A m \in Models :
          services'[m].status = "offline" => now' - services'[m].lastSeen > 2
     /\ (cleanupC /\ ~cleanupC') =>
          \A m \in Models :
            (services[m] # NoRecord /\ now - services[m].lastSeen > 2)
              => services'[m].status = "offline"]_vars

\* C26 witness: a cleanup pass marked a record of age 3 offline and left a
\* record of age 2 online
C26_Witness ==
  /\ fleetOp.op = "cleanup"
  /\ \E m \in Models :
       services[m].status = "offline" /\ now - services[m].lastSeen = 3
  /\ \E m \in Models :
       services[m].status = "online" /\ now - services[m].lastSeen = 2

\* C27: a record, once held, is held in every later state.
C27_RecordNeverDeleted ==
  [][\A m \in Models : services[m] # NoRecord => services'[m] # NoRecord]_vars

\* C27 witness: a cleanup pass found a stale record, and the record is
\* still held, offline
C27_Witness ==
  /\ fleetOp.op = "cleanup"
  /\ fleetOp.changed
  /\ \E m \in Models :
       services[m].status = "offline" /\ Stale(services[m], now)

\* C28: an operation that changed the fleet state queued one event for
\* every connected client and skipped none, and an operation that did not
\* change the fleet state queued none.
C28_OneEventPerChange ==
  /\ fleetOp.changed => fleetOp.skipped = {}
  /\ ~fleetOp.changed => fleetOp.notified = {}

\* the invocation of worker w went through the text service with a
\* grammar reference that did not resolve
GrammarFailed(w) ==
  /\ Entered(w) /\ pc[w] # "service"
  /\ Ops(w, "svc") = 1
  /\ gen.resolved = "failed"

\* C29: a request whose grammar reference does not resolve goes on without
\* a grammar: generation is invoked, no grammar reaches the model, the
\* response carries an error only if generation itself failed, and the
\* message is acknowledged, never negatively acknowledged.
C29_GrammarFailureProceeds ==
  \A w \in OneWorker :
    GrammarFailed(w) =>
      /\ gen.invoked
      /\ gen.grammar = ""
      /\ inv[w].respError <=> inv[w].outcome # "ok"
      /\ Ops(w, "nak") = 0
      /\ Returned(w) => Ops(w, "ack") = 1

\* C29 witness: a request naming a grammar the repository lacks was
\* generated, answered without error and removed from the stream
C29_Witness ==
  \E w \in OneWorker :
    /\ GrammarFailed(w) /\ Returned(w)
    /\ params.grammar.parts = 1 /\ ~params.grammar.stored
    /\ gen.called
    /\ ~inv[w].respError
    /\ Ops(w, "pub") = 1
    /\ stream[inv[w].msg] = "removed"

\* C30: without a max_tokens key the model is called with a budget of
\* 2048; with max_tokens present and <= 0 it is called with a budget of 1.
C30_GenerationBudget ==
  gen.invoked =>
    /\ params.maxTokens.kind = "absent" => (gen.called /\ gen.budget = 2048)
    /\ (params.maxTokens.kind = "number" /\ params.maxTokens.halves <= 0)
         => (gen.called /\ gen.budget = 1)

\* C31: every inference endpoint answers 200 whenever its handler returned
\* a response, the handler's error being carried in the body; 400 is used
\* only for malformed bodies, 405 only for wrong methods, and no request
\* whose handler returned is answered 500.
C31_HandlerErrorIs200 ==
  httpResp # NoAnswer =>
    /\ httpResp.handled => httpResp.status = 200
    /\ httpResp.status = 400 => httpReq.body = "malformed"
    /\ httpResp.status = 405 => httpReq.method # "POST"
    /\ httpResp.status = 500 => ~httpResp.handled

\* C32: between two deletions of a (directory, name) at most one create of
\* it succeeds, whatever the overlap of the create calls, so that the body
\* stored by the first create is never replaced by a later create.
C32_OneCreatePerName == creates <= 1

\* the response holds exactly one <|channel|>final<|message|>...<|end|>
\* segment
OneFinalSegment(resp) ==
  /\ Cardinality({i \in 1..Len(resp) : resp[i] = FinalMark}) = 1
  /\ \E i, j \in 1..Len(resp) : i < j /\ resp[i] = FinalMark /\ resp[j] = EndMark

\* the text of that segment: what stands between its two markers
SegmentText(resp) ==
  LET at == CHOOSE i \in 1..Len(resp) : resp[i] = FinalMark
      end == CHOOSE j \in (at + 1)..Len(resp) :
               resp[j] = EndMark /\ \A k \in (at + 1)..(j - 1) : resp[k] # EndMark
  IN  SubSeq(resp, at + 1, end - 1)

\* C33: for a response with exactly one final segment, the parsed final
\* response is the text of the segment, character for character, and it is
\* the text returned to the user.
C33_FinalIsSegmentText ==
  parsed.done /\ OneFinalSegment(response) =>
    /\ parsed.FinalResponse = SegmentText(response)
    /\ parsed.returned = SegmentText(response)

\* the input asks to explain or to analyse
AsksToExplain(in) ==
  \/ StringsContains(ToLower(in), <<"e", "x", "p", "l", "a", "i", "n">>)
  \/ StringsContains(ToLower(in), <<"a", "n", "a", "l", "y", "z", "e">>)

\* the input is a simple greeting
Greeting(in) == ToLower(in) = InputHello

\* C34: DetermineReasoningLevel returns high for inputs that ask to explain
\* or analyse, low for simple greetings such as "hello", and medium for
\* every other input, "what is AI?" and "calculate 2+2" included.
C34_ReasoningLevelMapping ==
  level # NoLevel =>
    level = IF AsksToExplain(input) THEN "high"
            ELSE IF Greeting(input) THEN "low"
            ELSE "medium"

\* C35: a request whose payload parsed is negatively acknowledged only if
\* its response failed to serialize, for every subject and for the text and
\* the audio wiring: a NAK of a parsed request comes after its service call.
C35_ParsedNakOnlyOnMarshal ==
  \A w \in Workers :
    inv[w].req.parses /\ Count(inv[w].trace, "nak") > 0
      => Count(inv[w].trace, "svc") > 0

\* C36: the bus connection is not closed, and the process does not exit,
\* while a worker task is inside a handler invocation: once the shared
\* context is cancelled, the connection closes and main returns only when
\* no invocation is in progress.
C36_NoCloseMidHandler ==
  [][(ctx = "cancelled" /\ ((conn = "open" /\ conn' = "closed") \/ (~exited /\ exited')))
       => InHandler = {}]_vars

\* C37: the embedding service of the queue workers is constructed at most
\* once per process and every embedding invocation runs on that single
\* instance, also when several tasks handle their first embedding message
\* at the same time; no task writes the field while another task is
\* between its read of the field and its call.
C37_SingleEmbeddingService ==
  /\ constructed <= 1
  /\ \A t, u \in Tasks :
       embUsed[t] # NilInstance /\ embUsed[u] # NilInstance => embUsed[t] = embUsed[u]
  /\ Cardinality({t \in Tasks : embPc[t] = "construct"}) <= 1

\* C38: a record that was marked offline takes the status carried by the
\* next heartbeat of its model, with first_seen unchanged; and however a
\* heartbeat and a cleanup pass interleave, no record is left offline whose
\* last heartbeat is newer than the cutoff, now - 2 minutes.
C38_OfflineComesBack ==
  [][/\ (arrival.pc = "stamped" /\ arrival'.pc = "applied"
           /\ services[arrival.model].status = "offline")
          => /\ services'[arrival.model].status = "online"
             /\ services'[arrival.model].firstSeen = services[arrival.model].firstSeen
             /\ services'[arrival.model].lastSeen = arrival.at
     /\ \A m \in Models :
          services'[m].status = "offline"
            => services'[m].lastSeen < now' - StaleAfter]_vars

\* C38 witness: a heartbeat whose clock reading is older than the cleanup
\* pass that ran before it took the lock brought an offline record back
C38_Witness ==
  /\ arrival.pc = "applied"
  /\ arrival.wasOffline
  /\ arrival.at < now
  /\ services[arrival.model].status = "online"
  /\ services[arrival.model].firstSeen < arrival.at

C40_CallOutcome ==
  /\ lost = 0
  /\ call.pc = "returned" => call.result \in {"reply", "timeout", "cancelled"}
  /\ call.result = "reply" => call.replyNo = 1
  /\ call.result = "timeout" => elapsed >= ClientTimeout
  /\ call.result = "cancelled" => callCtx = "cancelled"

\* C40 (amended): the subscription exists before the request is published,
\* so no reply published while the call waits is missed; a call that has
\* published its request returns exactly one of: the first reply received
\* (as a parse error when it is not a valid response), a timeout error
\* after the configured timeout, or the context's cancellation error; a
\* call whose subscribe or publish fails returns that error without
\* having sent the request.
C40_SentCallOutcome ==
  /\ lost = 0
  /\ (call.sent /\ call.pc # "returned") => replySub
  /\ (call.pc = "returned" /\ call.sent)
       => call.result \in {"reply", "parseErr", "timeout", "cancelled"}
  /\ (call.pc = "returned" /\ ~call.sent)
       => call.result \in {"subscribeErr", "publishErr"} /\ replies = 0
  /\ call.result \in {"reply", "parseErr"} => call.replyNo = 1
  /\ call.result = "timeout" => elapsed >= ClientTimeout
  /\ call.result = "cancelled" => callCtx = "cancelled"
  /\ call.pc = "returned" => ~replySub

\* C40 witness: the call returned the first reply although a second one
\* had been published, the timer had fired and the context was cancelled
C40_Witness ==
  /\ call.pc = "returned"
  /\ call.result = "reply"
  /\ call.replyNo = 1
  /\ replies = 2
  /\ elapsed = ClientTimeout
  /\ callCtx = "cancelled"

TypeOK ==
  /\ mode \in {"text", "audio"}
  /\ pendingCount \in Int
  /\ activeCount \in Int
  /\ \A m \in MsgIds : deliveries[m] \in 0..MaxDeliveries

====
